---- MODULE Spec2Model ----
(***************************************************************************)
(* ircpush: the text transformation pipeline.                              *)
(*                                                                         *)
(*   pkg/irc        Client.segmentMessage (length policy: split/truncate)  *)
(*   pkg/highlight  New, Highlighter.ApplyFor (rule based styling)         *)
(*                                                                         *)
(* A Go string is a sequence of bytes (0..255); []rune(s) decodes it as    *)
(* UTF-8 and string(runes) encodes it again.  A highlighter text is a      *)
(* sequence of one-character strings.                                      *)
(***************************************************************************)
EXTENDS Integers, Sequences, FiniteSets, TLC

\* ------------------------------------------------------------------------
\* Bounds of the model
\* ------------------------------------------------------------------------

\* longest message, in bytes
MaxMsgBytes == 5

\* largest MaxMessageLen of the configuration
MaxLimit == 4

\* most rule descriptions in a highlight configuration
MaxRules == 2

\* longest text given to ApplyFor, in characters
MaxTextLen == 2

\* longest line given to parseTargets, in characters
MaxLineLen == 4

\* longest message given to SendTo and Broadcast, in bytes
MaxSendLen == 3

\* longest line a connection sends, in characters
MaxConnLen == 5

\* longest text given to a rule with group selectors, in characters
MaxGrpLen == 4

\* most failed calls of ConnectTo in a row
MaxFails == 6

\* most calls of Close
MaxCloses == 2

\* most calls of SetHighlighter
MaxReloads == 1

\* most channels in cfg.Channels and in the argument of SendTo
MaxChans == 2

\* ------------------------------------------------------------------------
\* Generic helpers
\* ------------------------------------------------------------------------

SeqsUpTo(S, n) == UNION {[1..k -> S] : k \in 0..n}

Min(a, b) == IF a < b THEN a ELSE b

\* s[a:b] of Go: the elements at the 0-based positions a .. b-1
Slice(s, a, b) == SubSeq(s, a + 1, b)

RECURSIVE Flatten(_)
Flatten(ss) == IF ss = <<>> THEN <<>> ELSE Head(ss) \o Flatten(Tail(ss))

\* ------------------------------------------------------------------------
\* Strings and runes (pkg/irc)
\* ------------------------------------------------------------------------

\* ' '
SpaceRune == 32

\* '.'
DotRune == 46

\* the bytes a message is drawn from: ' ', 'a', and the two bytes of U+00E9,
\* each of which alone is invalid UTF-8
MsgBytes == {SpaceRune, 97, 195, 169}

IsCont(b) == b >= 128 /\ b <= 191

\* the byte at 1-based position i, or 0 past the end (never a continuation)
ByteAt(bs, i) == IF i <= Len(bs) THEN bs[i] ELSE 0

\* one step of the UTF-8 decoder at position i: <<rune, width>>; a byte that
\* starts no valid encoding is U+FFFD of width 1
DecodeRune(bs, i) ==
  LET b0 == bs[i]
      b1 == ByteAt(bs, i + 1)
      b2 == ByteAt(bs, i + 2)
      b3 == ByteAt(bs, i + 3)
      lo1 == IF b0 = 224 THEN 160 ELSE IF b0 = 240 THEN 144 ELSE 128
      hi1 == IF b0 = 237 THEN 159 ELSE IF b0 = 244 THEN 143 ELSE 191
      ok1 == b1 >= lo1 /\ b1 <= hi1
  IN  IF b0 < 128 THEN <<b0, 1>>
      ELSE IF b0 >= 194 /\ b0 <= 223 /\ ok1
        THEN <<(b0 - 192) * 64 + (b1 - 128), 2>>
      ELSE IF b0 >= 224 /\ b0 <= 239 /\ ok1 /\ IsCont(b2)
        THEN <<(b0 - 224) * 4096 + (b1 - 128) * 64 + (b2 - 128), 3>>
      ELSE IF b0 >= 240 /\ b0 <= 244 /\ ok1 /\ IsCont(b2) /\ IsCont(b3)
        THEN <<(b0 - 240) * 262144 + (b1 - 128) * 4096 + (b2 - 128) * 64 + (b3 - 128), 4>>
      ELSE <<65533, 1>>

RECURSIVE DecodeFrom(_, _)
DecodeFrom(bs, i) ==
  IF i > Len(bs) THEN <<>>
  ELSE LET d == DecodeRune(bs, i) IN <<d[1]>> \o DecodeFrom(bs, i + d[2])

\* []rune(msg)
Runes(bs) == DecodeFrom(bs, 1)

EncodeRune(r) ==
  IF r < 128 THEN <<r>>
  ELSE IF r < 2048 THEN <<192 + (r \div 64), 128 + (r % 64)>>
  ELSE IF r < 65536
    THEN <<224 + (r \div 4096), 128 + ((r \div 64) % 64), 128 + (r % 64)>>
  ELSE <<240 + (r \div 262144), 128 + ((r \div 4096) % 64),
         128 + ((r \div 64) % 64), 128 + (r % 64)>>

\* string(runes)
String(rs) == Flatten([i \in 1..Len(rs) |-> EncodeRune(rs[i])])

\* "..."
Ellipsis == <<DotRune, DotRune, DotRune>>

\* mutant of LastSpace: the search runs forward and stops at the first ' '
MutLastSpaceFirst(rs) ==
  LET at == {i \in 1..Len(rs) : rs[i] = SpaceRune}
  IN  IF at = {} THEN -1 ELSE (CHOOSE i \in at : \A j \in at : i <= j) - 1

\* lastSpace(rs): the 0-based position of the last ' ' of rs, or -1
LastSpace(rs) ==
  LET at == {i \in 1..Len(rs) : rs[i] = SpaceRune}
  IN  IF at = {} THEN -1 ELSE (CHOOSE i \in at : \A j \in at : j <= i) - 1

\* the cursor after the run of spaces that starts at the 0-based position p
RECURSIVE SkipSpaces(_, _)
SkipSpaces(rs, p) ==
  IF p < Len(rs) /\ rs[p + 1] = SpaceRune THEN SkipSpaces(rs, p + 1) ELSE p

\* ------------------------------------------------------------------------
\* Texts (pkg/highlight): a string is a sequence of one-character strings
\* ------------------------------------------------------------------------

\* "\x02"
ircBold == "^B"

\* "\x1F"
ircUnder == "^U"

\* "\x03"
ircColor == "^C"

\* "\x0F"
ircReset == "^O"

LowerLetters ==
  <<"a", "b", "c", "d", "e", "f", "g", "h", "i", "j", "k", "l", "m",
    "n", "o", "p", "q", "r", "s", "t", "u", "v", "w", "x", "y", "z">>

UpperLetters ==
  <<"A", "B", "C", "D", "E", "F", "G", "H", "I", "J", "K", "L", "M",
    "N", "O", "P", "Q", "R", "S", "T", "U", "V", "W", "X", "Y", "Z">>

Digits == {"0", "1", "2", "3", "4", "5", "6", "7", "8", "9"}

Range(f) == {f[i] : i \in DOMAIN f}

LowerChar(c) ==
  IF c \in Range(UpperLetters)
    THEN LowerLetters[CHOOSE i \in 1..26 : UpperLetters[i] = c]
    ELSE c

\* strings.ToLower
ToLower(s) == [i \in 1..Len(s) |-> LowerChar(s[i])]

IsSpaceChar(c) == c \in {" ", "\t", "\n", "\r"}

\* strings.TrimSpace
TrimSpace(s) ==
  LET keep == {i \in 1..Len(s) : ~IsSpaceChar(s[i])}
  IN  IF keep = {} THEN <<>>
      ELSE SubSeq(s, CHOOSE i \in keep : \A j \in keep : i <= j,
                     CHOOSE i \in keep : \A j \in keep : j <= i)

\* strings.HasPrefix
HasPrefix(s, pre) == Len(s) >= Len(pre) /\ SubSeq(s, 1, Len(pre)) = pre

\* the fields of s between the separators sep (strings.Split)
RECURSIVE Split(_, _)
Split(s, sep) ==
  LET at == {i \in 1..Len(s) : s[i] = sep}
  IN  IF at = {} THEN <<s>>
      ELSE LET i == CHOOSE k \in at : \A j \in at : k <= j
           IN  <<SubSeq(s, 1, i - 1)>> \o Split(SubSeq(s, i + 1, Len(s)), sep)

\* strings.Join
RECURSIVE Join(_, _)
Join(parts, sep) ==
  IF parts = <<>> THEN <<>>
  ELSE IF Len(parts) = 1 THEN parts[1]
  ELSE parts[1] \o <<sep>> \o Join(Tail(parts), sep)

\* ------------------------------------------------------------------------
\* Styles: buildStyle, colorToCode
\* ------------------------------------------------------------------------

ColorNames ==
  {<<<<"w", "h", "i", "t", "e">>, <<"0", "0">>>>,
    <<<<"b", "l", "a", "c", "k">>, <<"0", "1">>>>,
    <<<<"b", "l", "u", "e">>, <<"0", "2">>>>,
    <<<<"n", "a", "v", "y">>, <<"0", "2">>>>,
    <<<<"g", "r", "e", "e", "n">>, <<"0", "3">>>>,
    <<<<"r", "e", "d">>, <<"0", "4">>>>,
    <<<<"b", "r", "o", "w", "n">>, <<"0", "5">>>>,
    <<<<"m", "a", "r", "o", "o", "n">>, <<"0", "5">>>>,
    <<<<"p", "u", "r", "p", "l", "e">>, <<"0", "6">>>>,
    <<<<"o", "r", "a", "n", "g", "e">>, <<"0", "7">>>>,
    <<<<"o", "l", "i", "v", "e">>, <<"0", "7">>>>,
    <<<<"y", "e", "l", "l", "o", "w">>, <<"0", "8">>>>,
    <<<<"l", "i", "g", "h", "t", "g", "r", "e", "e", "n">>, <<"0", "9">>>>,
    <<<<"l", "i", "m", "e">>, <<"0", "9">>>>,
    <<<<"t", "e", "a", "l">>, <<"1", "0">>>>,
    <<<<"c", "y", "a", "n">>, <<"1", "0">>>>,
    <<<<"l", "i", "g", "h", "t", "c", "y", "a", "n">>, <<"1", "1">>>>,
    <<<<"a", "q", "u", "a">>, <<"1", "1">>>>,
    <<<<"l", "i", "g", "h", "t", "b", "l", "u", "e">>, <<"1", "2">>>>,
    <<<<"r", "o", "y", "a", "l">>, <<"1", "2">>>>,
    <<<<"p", "i", "n", "k">>, <<"1", "3">>>>,
    <<<<"f", "u", "c", "h", "s", "i", "a">>, <<"1", "3">>>>,
    <<<<"g", "r", "e", "y">>, <<"1", "4">>>>,
    <<<<"g", "r", "a", "y">>, <<"1", "4">>>>,
    <<<<"l", "i", "g", "h", "t", "g", "r", "e", "y">>, <<"1", "5">>>>,
    <<<<"l", "i", "g", "h", "t", "g", "r", "a", "y">>, <<"1", "5">>>>,
    <<<<"s", "i", "l", "v", "e", "r">>, <<"1", "5">>>>}

\* isNumericColor
IsNumericColor(s) == \A i \in 1..Len(s) : s[i] \in Digits \/ s[i] = ","

\* normalizeNumeric: every part between commas is made two digits long
NormalizeNumeric(s) ==
  LET parts == Split(s, ",")
      norm(q) == IF Len(q) = 1 THEN <<"0">> \o q
                 ELSE IF Len(q) > 2 THEN SubSeq(q, 1, 2)
                 ELSE q
  IN  Join([i \in 1..Len(parts) |-> norm(parts[i])], ",")

\* colorToCode
ColorToCode(name) ==
  LET n == TrimSpace(ToLower(name))
  IN  IF n = <<>> THEN <<>>
      ELSE IF IsNumericColor(n) THEN NormalizeNumeric(n)
      ELSE IF \E e \in ColorNames : e[1] = n
        THEN (CHOOSE e \in ColorNames : e[1] = n)[2]
      ELSE <<>>

\* buildStyle
BuildStyle(r) ==
  (IF r.Bold THEN <<ircBold>> ELSE <<>>)
  \o (IF r.Underline THEN <<ircUnder>> ELSE <<>>)
  \o (IF ColorToCode(r.Color) # <<>> THEN <<ircColor>> \o ColorToCode(r.Color) ELSE <<>>)

\* ------------------------------------------------------------------------
\* Globs: globMatch over filepath.Match
\* ------------------------------------------------------------------------

\* the position after the character class that opens at pattern position i
\* (p[i] = "["), or 0 when the class is empty or not closed; a class lists
\* the characters it matches
ClassEnd(p, i) ==
  LET close == {j \in (i + 1)..Len(p) : p[j] = "]"}
      j0 == CHOOSE j \in close : \A k \in close : j <= k
  IN  IF close = {} THEN 0 ELSE IF j0 = i + 1 THEN 0 ELSE j0 + 1

\* the pattern from position i on is well formed
RECURSIVE GlobWellFormed(_, _)
GlobWellFormed(p, i) ==
  IF i > Len(p) THEN TRUE
  ELSE IF p[i] = "[" THEN ClassEnd(p, i) # 0 /\ GlobWellFormed(p, ClassEnd(p, i))
  ELSE IF p[i] = "\\" THEN i < Len(p) /\ GlobWellFormed(p, i + 2)
  ELSE GlobWellFormed(p, i + 1)

\* the well-formed pattern from position i on matches the name from
\* position k on: "*" any run, "?" any one character, "[..]" one of the
\* characters listed, "\\c" the character c
RECURSIVE GlobMatches(_, _, _, _)
GlobMatches(p, i, name, k) ==
  IF i > Len(p) THEN k > Len(name)
  ELSE IF p[i] = "*"
    THEN \E k2 \in k..(Len(name) + 1) :
           /\ \A q \in k..(k2 - 1) : name[q] # "/"
           /\ GlobMatches(p, i + 1, name, k2)
  ELSE IF k > Len(name) THEN FALSE
  ELSE IF p[i] = "?" THEN name[k] # "/" /\ GlobMatches(p, i + 1, name, k + 1)
  ELSE IF p[i] = "["
    THEN /\ \E j \in (i + 1)..(ClassEnd(p, i) - 2) : p[j] = name[k]
         /\ GlobMatches(p, ClassEnd(p, i), name, k + 1)
  ELSE IF p[i] = "\\"
    THEN p[i + 1] = name[k] /\ GlobMatches(p, i + 2, name, k + 1)
  ELSE p[i] = name[k] /\ GlobMatches(p, i + 1, name, k + 1)

\* GlobMatch, had the error of filepath.Match counted as a match
MutGlobMatchFailOpen(pattern, name) ==
  ~GlobWellFormed(pattern, 1) \/ GlobMatches(pattern, 1, name, 1)

\* globMatch: filepath.Match, with its error (a malformed pattern) as false
GlobMatch(pattern, name) ==
  GlobWellFormed(pattern, 1) /\ GlobMatches(pattern, 1, name, 1)

\* ------------------------------------------------------------------------
\* Regular expressions: regexp.Compile, regexp.QuoteMeta, and the matching
\* behind MatchString, ReplaceAllStringFunc and FindAllStringSubmatchIndex.
\*
\* The patterns of the model are alternations (at the top level) of
\* concatenations of literal characters, \b, escaped characters and capture
\* groups "(..)" and "(?P<name>..)", with an optional leading "(?i)".  A
\* compiled pattern is
\*   [alts, ngroups, names, fold]
\* where alts lists the alternatives in order, each
\*   [lit: the characters it matches, wb: the offsets where \b must hold,
\*    spans: for each group, its <<from, to>> offsets in lit, or <<-1, -1>>].
\* ------------------------------------------------------------------------

NoRegexp == [ok |-> FALSE]

MetaChars == {"\\", ".", "+", "*", "?", "(", ")", "|", "[", "]", "{", "}", "^", "$"}

\* regexp.QuoteMeta
QuoteMeta(s) ==
  Flatten([i \in 1..Len(s) |->
             IF s[i] \in MetaChars THEN <<"\\", s[i]>> ELSE <<s[i]>>])

IsWordChar(c) == c \in Range(LowerLetters) \cup Range(UpperLetters) \cup Digits \cup {"_"}

Unset == <<-1, -1>>

\* the parser's state at the start of a pattern
ParseStart ==
  [alts |-> <<>>, lit |-> <<>>, wb |-> {}, spans |-> <<>>, open |-> <<>>,
   names |-> <<>>, fold |-> FALSE, err |-> FALSE]

\* the alternative being parsed, closed: every group gets a span
CloseAlt(st) ==
  [st EXCEPT !.alts = Append(st.alts, [lit |-> st.lit, wb |-> st.wb, spans |-> st.spans]),
             !.lit = <<>>, !.wb = {},
             !.spans = [g \in 1..Len(st.spans) |-> Unset]]

\* a group opens at the current offset
OpenGroup(st, name) ==
  [st EXCEPT !.spans = Append(st.spans, <<Len(st.lit), -1>>),
             !.names = Append(st.names, name),
             !.open = <<Len(st.spans) + 1>> \o st.open]

\* the innermost open group closes at the current offset
CloseGroup(st) ==
  IF st.open = <<>> THEN [st EXCEPT !.err = TRUE]
  ELSE [st EXCEPT !.spans[Head(st.open)] = <<st.spans[Head(st.open)][1], Len(st.lit)>>,
                  !.open = Tail(st.open)]

\* the position of the ">" that ends the group name that starts at i, or 0
NameEnd(s, i) ==
  LET gt == {j \in i..Len(s) : s[j] = ">"}
      j0 == CHOOSE j \in gt : \A k \in gt : j <= k
  IN  IF gt = {} THEN 0
      ELSE IF j0 = i THEN 0
      ELSE IF \E k \in i..(j0 - 1) : ~IsWordChar(s[k]) THEN 0
      ELSE j0

RECURSIVE Parse(_, _, _)
Parse(s, i, st) ==
  IF st.err THEN st
  ELSE IF i > Len(s)
    THEN IF st.open # <<>> THEN [st EXCEPT !.err = TRUE] ELSE CloseAlt(st)
  ELSE IF s[i] = "\\"
    THEN IF i = Len(s) THEN [st EXCEPT !.err = TRUE]
         ELSE IF s[i + 1] = "b"
           THEN Parse(s, i + 2, [st EXCEPT !.wb = @ \cup {Len(st.lit)}])
         ELSE IF s[i + 1] \in MetaChars
           THEN Parse(s, i + 2, [st EXCEPT !.lit = Append(@, s[i + 1])])
         ELSE [st EXCEPT !.err = TRUE]
  ELSE IF s[i] = "(" /\ i < Len(s) /\ s[i + 1] = "?"
    THEN IF SubSeq(s, i, Min(i + 3, Len(s))) = <<"(", "?", "i", ")">>
           THEN Parse(s, i + 4, [st EXCEPT !.fold = TRUE])
         ELSE IF SubSeq(s, i, Min(i + 3, Len(s))) = <<"(", "?", "P", "<">>
           THEN IF NameEnd(s, i + 4) = 0
                   \/ SubSeq(s, i + 4, NameEnd(s, i + 4) - 1) \in Range(st.names)
                  THEN [st EXCEPT !.err = TRUE]
                ELSE Parse(s, NameEnd(s, i + 4) + 1,
                           OpenGroup(st, SubSeq(s, i + 4, NameEnd(s, i + 4) - 1)))
         ELSE [st EXCEPT !.err = TRUE]
  ELSE IF s[i] = "(" THEN Parse(s, i + 1, OpenGroup(st, <<>>))
  ELSE IF s[i] = ")" THEN Parse(s, i + 1, CloseGroup(st))
  ELSE IF s[i] = "|" /\ st.open = <<>> THEN Parse(s, i + 1, CloseAlt(st))
  ELSE IF s[i] \in MetaChars THEN [st EXCEPT !.err = TRUE]
  ELSE Parse(s, i + 1, [st EXCEPT !.lit = Append(@, s[i])])

\* regexp.Compile: NoRegexp for a pattern that does not compile.  A group
\* opened in a later alternative is unset in the earlier ones.
Compile(pat) ==
  LET st == Parse(pat, 1, ParseStart)
      n == Len(st.spans)
      pad(a) == [a EXCEPT !.spans = [g \in 1..n |-> IF g <= Len(a.spans) THEN a.spans[g] ELSE Unset]]
  IN  IF st.err THEN NoRegexp
      ELSE [ok |-> TRUE,
            alts |-> [k \in 1..Len(st.alts) |-> pad(st.alts[k])],
            ngroups |-> n,
            names |-> st.names,
            fold |-> st.fold]

\* re.SubexpIndex(name): the first group of that name, or -1
SubexpIndex(re, name) ==
  LET at == {g \in 1..re.ngroups : re.names[g] = name}
  IN  IF name = <<>> \/ at = {} THEN -1 ELSE CHOOSE g \in at : \A h \in at : g <= h

\* \b holds in s at the 0-based offset q
WordBoundary(s, q) ==
  (q >= 1 /\ q <= Len(s) /\ IsWordChar(s[q])) # (q < Len(s) /\ IsWordChar(s[q + 1]))

SameChar(re, c, d) == IF re.fold THEN LowerChar(c) = LowerChar(d) ELSE c = d

\* the alternative a matches s at the 0-based offset p
AltMatchesAt(re, a, s, p) ==
  /\ p + Len(a.lit) <= Len(s)
  /\ \A k \in 1..Len(a.lit) : SameChar(re, a.lit[k], s[p + k])
  /\ \A q \in a.wb : WordBoundary(s, p + q)

\* the least member of the set of integers S, or none when S is empty
FirstOf(S, none) == IF S = {} THEN none ELSE CHOOSE x \in S : \A y \in S : x <= y

\* the first alternative that matches s at p, or 0 (leftmost-first)
MatchAt(re, s, p) ==
  FirstOf({k \in 1..Len(re.alts) : AltMatchesAt(re, re.alts[k], s, p)}, 0)

\* the leftmost offset from pos on where re matches s, or -1
MatchPos(re, s, pos) == FirstOf({p \in pos..Len(s) : MatchAt(re, s, p) # 0}, -1)

\* the offsets <<m0s, m0e, g1s, g1e, ...>> of the match of the alternative
\* a at p0
Offsets(re, a, p0) ==
  <<p0, p0 + Len(a.lit)>>
  \o Flatten([g \in 1..re.ngroups |->
                IF a.spans[g][1] < 0 \/ a.spans[g][2] < 0 THEN Unset
                ELSE <<p0 + a.spans[g][1], p0 + a.spans[g][2]>>])

\* the offsets of the match at p0, or <<>> when p0 is -1
ExecuteAt(re, s, p0) ==
  IF p0 < 0 THEN <<>> ELSE Offsets(re, re.alts[MatchAt(re, s, p0)], p0)

\* the leftmost match that starts at pos or later: its offsets, or <<>>
\* when there is none
Execute(re, s, pos) == ExecuteAt(re, s, MatchPos(re, s, pos))

\* re.MatchString
MatchString(re, s) == MatchPos(re, s, 0) >= 0

\* a piece of the output of replaceAll: text of s, a match to replace or not
Piece(t, m) == [text |-> t, match |-> m]

\* re.ReplaceAllStringFunc, the loop of replaceAll from searchPos, with
\* lastMatchEnd the end of the match before: the pieces of s in order
RECURSIVE ReplacePieces(_, _, _, _)

\* one iteration of that loop, a the match found from searchPos on
ReplaceStep(re, s, searchPos, lastMatchEnd, a) ==
  IF searchPos > Len(s) \/ a = <<>> THEN <<Piece(Slice(s, lastMatchEnd, Len(s)), FALSE)>>
  ELSE <<Piece(Slice(s, lastMatchEnd, a[1]), FALSE)>>
       \o (IF a[2] > lastMatchEnd \/ a[1] = 0
            THEN <<Piece(Slice(s, a[1], a[2]), TRUE)>> ELSE <<>>)
       \o ReplacePieces(re, s, IF searchPos + 1 > a[2] THEN searchPos + 1 ELSE a[2], a[2])

ReplacePieces(re, s, searchPos, lastMatchEnd) ==
  ReplaceStep(re, s, searchPos, lastMatchEnd, Execute(re, s, searchPos))

\* re.FindAllStringSubmatchIndex(s, -1): the loop of allMatches from pos,
\* with prevMatchEnd the end of the match before (-1: none)
RECURSIVE FindAllFrom(_, _, _, _)

\* one iteration of that loop, m the match found from pos on: an empty match
\* right after the match before is not accepted
FindStep(re, s, pos, prevMatchEnd, m) ==
  IF pos > Len(s) \/ m = <<>> THEN <<>>
  ELSE (IF m[2] = pos /\ m[1] = prevMatchEnd THEN <<>> ELSE <<m>>)
       \o FindAllFrom(re, s, IF m[2] = pos THEN pos + 1 ELSE m[2], m[2])

FindAllFrom(re, s, pos, prevMatchEnd) ==
  FindStep(re, s, pos, prevMatchEnd, Execute(re, s, pos))

FindAllStringSubmatchIndex(re, s) == FindAllFrom(re, s, 0, -1)
\* ------------------------------------------------------------------------
\* pkg/highlight: New, compileRule, ruleAppliesTo, applyGroups, ApplyFor
\* ------------------------------------------------------------------------

\* compileRule: the compiled pattern of a rule description, or NoRegexp
CompileRule(r) ==
  LET pat == TrimSpace(r.Pattern)
      kind == ToLower(r.Kind)
      ci == <<"(", "?", "i", ")">>
  IN  IF pat = <<>> THEN NoRegexp
      ELSE IF kind = <<"r", "e", "g", "e", "x">>
        THEN Compile(IF r.CaseInsensitive /\ ~HasPrefix(pat, ci) THEN ci \o pat ELSE pat)
      ELSE IF kind = <<"w", "o", "r", "d">> \/ kind = <<>>
        THEN Compile((IF r.CaseInsensitive THEN ci ELSE <<>>)
                     \o <<"\\", "b">> \o QuoteMeta(pat) \o <<"\\", "b">>)
      ELSE NoRegexp

\* Globs, had New kept the entries that are empty once trimmed
MutGlobsKeepEmpty(list) == [i \in 1..Len(list) |-> ToLower(TrimSpace(list[i]))]

\* the channel globs New keeps of a list: trimmed, not empty, lower-cased
Globs(list) ==
  LET trimmed == [i \in 1..Len(list) |-> TrimSpace(list[i])]
      kept == SelectSeq(trimmed, LAMBDA p : p # <<>>)
  IN  [i \in 1..Len(kept) |-> ToLower(kept[i])]

\* strconv.Atoi succeeds on g: an optional sign and digits
IsInt(g) ==
  LET d == IF g # <<>> /\ g[1] \in {"+", "-"} THEN Tail(g) ELSE g
  IN  d # <<>> /\ \A i \in 1..Len(d) : d[i] \in Digits

DigitValue(c) == CHOOSE v \in 0..9 : <<"0", "1", "2", "3", "4", "5", "6", "7", "8", "9">>[v + 1] = c

RECURSIVE DigitsValue(_)
DigitsValue(d) ==
  IF d = <<>> THEN 0 ELSE DigitsValue(SubSeq(d, 1, Len(d) - 1)) * 10 + DigitValue(d[Len(d)])

\* strconv.Atoi
Atoi(g) ==
  IF g[1] = "-" THEN 0 - DigitsValue(Tail(g))
  ELSE IF g[1] = "+" THEN DigitsValue(Tail(g))
  ELSE DigitsValue(g)

\* uniqueInts: the first occurrence of every value, in order
RECURSIVE UniqueInts(_)
UniqueInts(in) ==
  IF in = <<>> THEN <<>>
  ELSE LET init == UniqueInts(SubSeq(in, 1, Len(in) - 1))
           v == in[Len(in)]
       IN  IF v \in Range(init) THEN init ELSE Append(init, v)

\* sort.Ints
RECURSIVE SortInts(_)
SortInts(s) ==
  IF s = <<>> THEN <<>>
  ELSE LET m == CHOOSE i \in 1..Len(s) : \A j \in 1..Len(s) : s[i] <= s[j]
       IN  <<s[m]>> \o SortInts(SubSeq(s, 1, m - 1) \o SubSeq(s, m + 1, Len(s)))

\* segs with the span x put before the first span that starts after it
RECURSIVE InsertSeg(_, _)
InsertSeg(segs, x) ==
  IF segs = <<>> THEN <<x>>
  ELSE IF x[1] < Head(segs)[1] THEN <<x>> \o segs
  ELSE <<Head(segs)>> \o InsertSeg(Tail(segs), x)

\* sort.Slice(segs, a < a): the spans by their start (spans with the same
\* start keep their order here; they merge to the same span in any order)
RECURSIVE SortSegs(_)
SortSegs(segs) ==
  IF segs = <<>> THEN <<>>
  ELSE InsertSeg(SortSegs(SubSeq(segs, 1, Len(segs) - 1)), segs[Len(segs)])

\* the group indices New resolves the selectors of a description to
GroupIdxs(re, groups) ==
  LET pick(sel) ==
        LET g == TrimSpace(sel)
        IN  IF g = <<>> THEN <<>>
            ELSE IF IsInt(g) THEN (IF Atoi(g) > 0 THEN <<Atoi(g)>> ELSE <<>>)
            ELSE IF SubexpIndex(re, g) > 0 THEN <<SubexpIndex(re, g)>>
            ELSE <<>>
      idxs == Flatten([i \in 1..Len(groups) |-> pick(groups[i])])
  IN  SortInts(UniqueInts(idxs))

\* the compiled rule New builds of a description whose pattern compiled
CompiledRule(r) ==
  LET re == CompileRule(r)
      includes == Globs(r.Channels)
      excludes == Globs(r.ExcludeChannels)
  IN  [re |-> re,
       stylePref |-> BuildStyle(r),
       wholeLine |-> r.WholeLine,
       includes |-> includes,
       excludes |-> excludes,
       hasFilters |-> Len(includes) > 0 \/ Len(excludes) > 0,
       groupIdxs |-> GroupIdxs(re, r.Groups)]

\* New: the rules of the Highlighter, in the order of their descriptions
RECURSIVE New(_)

\* New, had it given up at the first description that yields no rule
MutNewStopAtDrop(rules) ==
  IF rules = <<>> THEN <<>>
  ELSE IF CompileRule(Head(rules)).ok THEN <<CompiledRule(Head(rules))>> \o New(Tail(rules))
  ELSE <<>>

New(rules) ==
  IF rules = <<>> THEN <<>>
  ELSE (IF CompileRule(Head(rules)).ok THEN <<CompiledRule(Head(rules))>> ELSE <<>>)
       \o New(Tail(rules))

\* ruleAppliesTo, had it looked at the includes before the excludes
MutRuleAppliesToIncludeFirst(r, chLower) ==
  IF chLower = <<>> THEN ~r.hasFilters
  ELSE IF \E i \in 1..Len(r.includes) : GlobMatch(r.includes[i], chLower) THEN TRUE
  ELSE IF \E i \in 1..Len(r.excludes) : GlobMatch(r.excludes[i], chLower) THEN FALSE
  ELSE Len(r.includes) = 0

\* ruleAppliesTo
RuleAppliesTo(r, chLower) ==
  IF chLower = <<>> THEN ~r.hasFilters
  ELSE IF \E i \in 1..Len(r.excludes) : GlobMatch(r.excludes[i], chLower) THEN FALSE
  ELSE IF Len(r.includes) > 0
    THEN \E i \in 1..Len(r.includes) : GlobMatch(r.includes[i], chLower)
  ELSE TRUE

\* GroupSegs, had applyGroups taken the span of the whole match
MutGroupSegsWholeMatch(matches, groups) ==
  [m \in 1..Len(matches) |-> <<matches[m][1], matches[m][2]>>]

\* applyGroups, the spans: of every match, in order, the spans of the
\* selected groups that the match has and that are set and not empty
GroupSegs(matches, groups) ==
  LET one(idx, g) ==
        IF 2 * g + 1 >= Len(idx) THEN <<>>
        ELSE LET a == idx[2 * g + 1]
                 b == idx[2 * g + 2]
             IN  IF a >= 0 /\ b >= 0 /\ b > a THEN <<<<a, b>>>> ELSE <<>>
      ofMatch(idx) == Flatten([k \in 1..Len(groups) |-> one(idx, groups[k])])
  IN  Flatten([m \in 1..Len(matches) |-> ofMatch(matches[m])])

\* applyGroups, the merge: a span that starts after the end of the last
\* merged span opens a new one, another one can only extend it
RECURSIVE MergeSegs(_)

\* MergeSegs, had a span that starts at the end of the last merged span
\* opened a new one
MutMergeSegsNotTouching(segs) ==
  IF segs = <<>> THEN <<>>
  ELSE LET merged == MergeSegs(SubSeq(segs, 1, Len(segs) - 1))
           cur == segs[Len(segs)]
           n == Len(merged)
       IN  IF n = 0 \/ cur[1] >= merged[n][2] THEN Append(merged, cur)
           ELSE IF cur[2] > merged[n][2] THEN [merged EXCEPT ![n] = <<merged[n][1], cur[2]>>]
           ELSE merged

MergeSegs(segs) ==
  IF segs = <<>> THEN <<>>
  ELSE LET merged == MergeSegs(SubSeq(segs, 1, Len(segs) - 1))
           cur == segs[Len(segs)]
           n == Len(merged)
       IN  IF n = 0 \/ cur[1] > merged[n][2] THEN Append(merged, cur)
           ELSE IF cur[2] > merged[n][2] THEN [merged EXCEPT ![n] = <<merged[n][1], cur[2]>>]
           ELSE merged

\* applyGroups, the output: the text between the merged spans as it is,
\* every merged span between style and reset
RECURSIVE BuildStyled(_, _, _, _)
\* mutant of BuildStyled: the text after the last merged span is left out
MutBuildStyledNoTail(s, merged, last, style) ==
  IF merged = <<>> THEN <<>>
  ELSE LET sg == Head(merged)
       IN  (IF sg[1] > last THEN Slice(s, last, sg[1]) ELSE <<>>)
           \o style \o Slice(s, sg[1], sg[2]) \o <<ircReset>>
           \o BuildStyled(s, Tail(merged), sg[2], style)

BuildStyled(s, merged, last, style) ==
  IF merged = <<>> THEN (IF last < Len(s) THEN Slice(s, last, Len(s)) ELSE <<>>)
  ELSE LET sg == Head(merged)
       IN  (IF sg[1] > last THEN Slice(s, last, sg[1]) ELSE <<>>)
           \o style \o Slice(s, sg[1], sg[2]) \o <<ircReset>>
           \o BuildStyled(s, Tail(merged), sg[2], style)

\* applyGroups, from the spans on: the text as it is when there is none
StyleSegs(s, segs, style) ==
  IF Len(segs) = 0 THEN s ELSE BuildStyled(s, MergeSegs(SortSegs(segs)), 0, style)

\* applyGroups, from the matches on: the text as it is when there is none
StyleGroups(s, matches, groups, style) ==
  IF Len(matches) = 0 THEN s ELSE StyleSegs(s, GroupSegs(matches, groups), style)

\* applyGroups
ApplyGroups(s, re, groups, style) ==
  StyleGroups(s, FindAllStringSubmatchIndex(re, s), groups, style)

\* the channel as ApplyFor looks at it
ChLower(channel) == ToLower(TrimSpace(channel))

\* the rules that a call with this channel lets apply
Applicable(rules, channel) ==
  {i \in 1..Len(rules) : RuleAppliesTo(rules[i], ChLower(channel))}

\* WholeLineHit, had the first loop kept the last rule that matches
MutWholeLineHitLast(rules, chLower, s) ==
  LET hit == {i \in 1..Len(rules) :
                /\ RuleAppliesTo(rules[i], chLower)
                /\ rules[i].wholeLine
                /\ MatchString(rules[i].re, s)}
  IN  IF hit = {} THEN 0 ELSE CHOOSE i \in hit : \A j \in hit : i >= j

\* ApplyFor, the first loop: the first whole-line rule that applies and
\* matches, or 0
WholeLineHit(rules, chLower, s) ==
  FirstOf({i \in 1..Len(rules) :
             /\ RuleAppliesTo(rules[i], chLower)
             /\ rules[i].wholeLine
             /\ MatchString(rules[i].re, s)}, 0)

\* StyledMatch, had the function left the reset out
MutStyledMatchNoReset(style, m) == style \o m

\* ApplyFor, the function given to ReplaceAllStringFunc
StyledMatch(style, m) == style \o m \o <<ircReset>>

\* the pieces put together, the matches styled
StylePieces(ps, style) ==
  Flatten([i \in 1..Len(ps) |->
             IF ps[i].match THEN StyledMatch(style, ps[i].text) ELSE ps[i].text])

\* re.ReplaceAllStringFunc(s, func(m) { return style + m + ircReset })
ReplaceAllStringFunc(re, s, style) == StylePieces(ReplacePieces(re, s, 0, 0), style)

\* ApplyRule, had the second loop not asked ruleAppliesTo
MutApplyRuleAnyChannel(r, chLower, out) ==
  IF r.wholeLine THEN out
  ELSE IF Len(r.groupIdxs) = 0 THEN ReplaceAllStringFunc(r.re, out, r.stylePref)
  ELSE ApplyGroups(out, r.re, r.groupIdxs, r.stylePref)

\* ApplyFor, one round of the second loop
ApplyRule(r, chLower, out) ==
  IF ~RuleAppliesTo(r, chLower) \/ r.wholeLine THEN out
  ELSE IF Len(r.groupIdxs) = 0 THEN ReplaceAllStringFunc(r.re, out, r.stylePref)
  ELSE ApplyGroups(out, r.re, r.groupIdxs, r.stylePref)

\* ApplyFor, the second loop over the rules from i on
RECURSIVE PerMatch(_, _, _, _)

\* PerMatch, had the loop gone through the rules from the last to the first
MutPerMatchLastFirst(rules, i, chLower, out) ==
  IF i > Len(rules) THEN out
  ELSE ApplyRule(rules[i], chLower, PerMatch(rules, i + 1, chLower, out))

PerMatch(rules, i, chLower, out) ==
  IF i > Len(rules) THEN out
  ELSE PerMatch(rules, i + 1, chLower, ApplyRule(rules[i], chLower, out))

\* ApplyFor, after the first loop found the whole-line rule w, or none (0)
StyleLine(rules, chLower, s, w) ==
  IF w # 0 THEN rules[w].stylePref \o s \o <<ircReset>>
  ELSE PerMatch(rules, 1, chLower, s)

\* ApplyFor, the channel trimmed and lower-cased
ApplyForLower(rules, chLower, s) ==
  IF s = <<>> \/ Len(rules) = 0 THEN s
  ELSE StyleLine(rules, chLower, s, WholeLineHit(rules, chLower, s))

\* Highlighter.ApplyFor
ApplyFor(rules, channel, s) == ApplyForLower(rules, ChLower(channel), s)

\* ------------------------------------------------------------------------
\* State
\* ------------------------------------------------------------------------

VARIABLES
  limit,      \* cfg.MaxMessageLen
  splitLong,  \* cfg.SplitLong
  msg,        \* the argument of segmentMessage, bytes
  pc,         \* "entry" | "loop" | "done": where segmentMessage stands
  runes,      \* the local runes
  start,      \* the local start: the cursor, 0-based
  carve,      \* the last iteration: <<start, min(start+limit, len), end>>
  out,        \* the local out; when pc = "done", the value returned
  round,      \* 1: the first call; 2: the call on the first call's out[0]
  first,      \* in round 2, what the first call was given and returned
  hlCfg,      \* the rule descriptions New was given
  hl,         \* Highlighter.rules
  hlPc,       \* "new" | "ready" | "returned": New, then one call of ApplyFor
  hlChannel,  \* the channel argument of the call
  hlText,     \* the text argument of the call
  hlApplied,  \* the rules ruleAppliesTo let apply in the call
  hlOut,      \* what the call returned
  ptLine,     \* the argument of parseTargets
  ptPc,       \* "entry" | "done": where parseTargets stands
  ptTargets,  \* the targets parseTargets returned
  ptMsg,      \* the message parseTargets returned
  cliChannels,\* cfg.Channels of the IRC client
  cliLimit,   \* cfg.MaxMessageLen of the IRC client
  cliSplit,   \* cfg.SplitLong of the IRC client
  sndPc,      \* "idle" | "bcast" | "send" | "done": where the client's call stands
  sndKind,    \* "SendTo" | "Broadcast": the call
  sndArg,     \* the channels argument of SendTo
  sndMsg,     \* the msg argument of the call, bytes
  sndB,       \* Broadcast: the index of its loop over cfg.Channels
  sndChans,   \* sendPrepared: its channels argument
  sndSegs,    \* sendPrepared: the local segs
  sndI,       \* sendPrepared: the index of the loop over segs
  sndJ,       \* sendPrepared: the index of the loop over channels
  privmsgs,   \* the calls conn.Privmsg(ch, seg) so far, in order
  connText,   \* handleConn: sc.Text() of the line scanned
  connLine,   \* handleConn: the local line
  connPc,     \* handleConn: "scan" | "bcast" | "loop" | "done"
  connTargets,\* handleConn: the local targets
  connMsg,    \* handleConn: the local msg
  connK,      \* handleConn: the index of the loop over targets
  connCalls,  \* the calls of applyHL, IRC.SendTo and IRC.Broadcast so far, in order
  srvHL,      \* s.HL of the TCP server: <<>> for nil, else <<the Highlighter>>
  mu,         \* s.mu: the readers that hold it, a writer holds it, a writer waits
  hnd,        \* per connection handler, its call of applyHL: pc, arguments, locals
  rl,         \* the reloader's call of SetHighlighter: pc and argument
  reloads,    \* the calls of SetHighlighter so far
  lastRet,    \* the value the last call of SetHighlighter that returned had set
  stopClosed, \* the IRC client: c.stop is closed
  reconnCh,   \* the IRC client: how many signals c.reconnCh holds (it has one slot)
  rcPc,       \* the reconnector: "select" | "check" | "sleep" | "connect" | "done"
  backoff,    \* the reconnector: the local backoff, in seconds
  fails,      \* the failed calls of ConnectTo since the last one that succeeded
  lateAttempts, \* the calls of ConnectTo made when c.stop was closed
  closes,     \* the calls of Close so far
  coalesced,  \* a disconnect came while c.reconnCh was full
  onConnect,  \* what the connected handler sent so far, in order
  ready       \* the IRC client: c.ready is closed

segVars == <<limit, splitLong, msg, pc, runes, start, carve, out, round, first>>

NoCarve == <<0, 0, 0>>

NoFirst == [msg |-> <<>>, out |-> <<>>]

hlVars == <<hlCfg, hl, hlPc, hlChannel, hlText, hlApplied, hlOut>>

ptVars == <<ptLine, ptPc, ptTargets, ptMsg>>

sndVars == <<cliChannels, cliLimit, cliSplit, sndPc, sndKind, sndArg, sndMsg, sndB,
             sndChans, sndSegs, sndI, sndJ, privmsgs>>

connVars == <<connText, connLine, connPc, connTargets, connMsg, connK, connCalls>>

srvVars == <<srvHL, mu, hnd, rl, reloads, lastRet>>

recVars == <<stopClosed, reconnCh, rcPc, backoff, fails, lateAttempts, closes, coalesced>>

joinVars == <<onConnect, ready>>

vars == <<segVars, hlVars, ptVars, sndVars, connVars, srvVars, recVars, joinVars>>

\* what the segmenter, the highlighter and parseTargets leave alone
notSeg == <<hlVars, ptVars, sndVars, connVars, srvVars, recVars, joinVars>>

notHL == <<segVars, ptVars, sndVars, connVars, srvVars, recVars, joinVars>>

notPt == <<segVars, hlVars, sndVars, connVars, srvVars, recVars, joinVars>>

notSnd == <<segVars, hlVars, ptVars, connVars, srvVars, recVars, joinVars>>

notConn == <<segVars, hlVars, ptVars, sndVars, srvVars, recVars, joinVars>>

notSrv == <<segVars, hlVars, ptVars, sndVars, connVars, recVars, joinVars>>

notRec == <<segVars, hlVars, ptVars, sndVars, connVars, srvVars, joinVars>>

notJoin == <<segVars, hlVars, ptVars, connVars, srvVars, recVars>>

\* no connection of the IRC client
JoinIdle ==
  /\ onConnect = <<>>
  /\ ready = FALSE

\* no reconnector
RecIdle ==
  /\ stopClosed = FALSE
  /\ reconnCh = 0
  /\ rcPc = "off"
  /\ backoff = 0
  /\ fails = 0
  /\ lateAttempts = 0
  /\ closes = 0
  /\ coalesced = FALSE

\* the connection handlers
Handlers == {1, 2}

\* a handler outside applyHL
HndIdle == [pc |-> "idle", ch |-> <<>>, msg |-> <<>>, local |-> <<>>, out |-> <<>>, adm |-> {}]

\* no call of applyHL and none of SetHighlighter
SrvQuiet ==
  /\ mu = [readers |-> {}, writer |-> FALSE, pending |-> FALSE]
  /\ hnd = [p \in Handlers |-> HndIdle]
  /\ rl = [pc |-> "idle", arg |-> <<>>]
  /\ reloads = 0
  /\ lastRet = srvHL

\* no TCP server
SrvIdle ==
  /\ srvHL = <<>>
  /\ SrvQuiet

\* no connection of the TCP server
ConnIdle ==
  /\ connText = <<>>
  /\ connLine = <<>>
  /\ connPc = "off"
  /\ connTargets = <<>>
  /\ connMsg = <<>>
  /\ connK = 0
  /\ connCalls = <<>>

\* no call of the IRC client
SndIdle ==
  /\ cliChannels = <<>>
  /\ cliLimit = 0
  /\ cliSplit = FALSE
  /\ sndPc = "off"
  /\ sndKind = ""
  /\ sndArg = <<>>
  /\ sndMsg = <<>>
  /\ sndB = 0
  /\ sndChans = <<>>
  /\ sndSegs = <<>>
  /\ sndI = 0
  /\ sndJ = 0
  /\ privmsgs = <<>>

\* no call of parseTargets
PtIdle ==
  /\ ptLine = <<>>
  /\ ptPc = "idle"
  /\ ptTargets = <<>>
  /\ ptMsg = <<>>

\* no Highlighter in use
HLIdle ==
  /\ hlCfg = <<>>
  /\ hl = <<>>
  /\ hlPc = "new"
  /\ hlChannel = <<>>
  /\ hlText = <<>>
  /\ hlApplied = {}
  /\ hlOut = <<>>

\* no call of segmentMessage
SegIdle ==
  /\ limit = 0
  /\ splitLong = FALSE
  /\ msg = <<>>
  /\ pc = "idle"
  /\ runes = <<>>
  /\ start = 0
  /\ carve = NoCarve
  /\ out = <<>>
  /\ round = 1
  /\ first = NoFirst

SegInit ==
  /\ limit \in -1..MaxLimit
  /\ splitLong \in BOOLEAN
  /\ msg \in SeqsUpTo(MsgBytes, MaxMsgBytes)
  /\ pc = "entry"
  /\ runes = <<>>
  /\ start = 0
  /\ carve = NoCarve
  /\ out = <<>>
  /\ round = 1
  /\ first = NoFirst
  /\ HLIdle
  /\ PtIdle
  /\ SndIdle
  /\ ConnIdle
  /\ SrvIdle
  /\ RecIdle
  /\ JoinIdle

\* ------------------------------------------------------------------------
\* Client.segmentMessage
\* ------------------------------------------------------------------------

\* limit <= 0: no limit
SegNoLimit ==
  /\ pc = "entry"
  /\ limit <= 0
  /\ out' = <<msg>>
  /\ pc' = "done"
  /\ UNCHANGED <<limit, splitLong, msg, runes, start, carve, round, first>>
  /\ UNCHANGED notSeg

\* mutant of SegFits: a message that fits is returned as string(runes)
MutSegFitsReencoded ==
  /\ pc = "entry"
  /\ limit > 0
  /\ Len(Runes(msg)) <= limit
  /\ runes' = Runes(msg)
  /\ out' = <<String(Runes(msg))>>
  /\ pc' = "done"
  /\ UNCHANGED <<limit, splitLong, msg, start, carve, round, first>>
  /\ UNCHANGED notSeg

\* len(runes) <= limit: the message fits
SegFits ==
  /\ pc = "entry"
  /\ limit > 0
  /\ Len(Runes(msg)) <= limit
  /\ runes' = Runes(msg)
  /\ out' = <<msg>>
  /\ pc' = "done"
  /\ UNCHANGED <<limit, splitLong, msg, start, carve, round, first>>
  /\ UNCHANGED notSeg

\* mutant of Truncated: limit >= 3 in place of limit > 3
MutTruncatedEllipsisAt3(rs, n) ==
  IF n >= 3 THEN String(Slice(rs, 0, n - 3)) \o String(Ellipsis)
  ELSE String(Slice(rs, 0, n))

\* mutant of Truncated: the ellipsis is appended to the uncut message
MutTruncatedUncut(rs, n) ==
  IF n > 3 THEN String(rs) \o String(Ellipsis)
  ELSE String(Slice(rs, 0, n))

\* the chunk of truncate mode
Truncated(rs, n) ==
  IF n > 3 THEN String(Slice(rs, 0, n - 3)) \o String(Ellipsis)
  ELSE String(Slice(rs, 0, n))

\* !SplitLong: one chunk, cut
SegTruncate ==
  /\ pc = "entry"
  /\ limit > 0
  /\ Len(Runes(msg)) > limit
  /\ ~splitLong
  /\ runes' = Runes(msg)
  /\ out' = <<Truncated(Runes(msg), limit)>>
  /\ pc' = "done"
  /\ UNCHANGED <<limit, splitLong, msg, start, carve, round, first>>
  /\ UNCHANGED notSeg

\* SplitLong: enter the loop with start = 0 and an empty out
SegSplit ==
  /\ pc = "entry"
  /\ limit > 0
  /\ Len(Runes(msg)) > limit
  /\ splitLong
  /\ runes' = Runes(msg)
  /\ start' = 0
  /\ out' = <<>>
  /\ pc' = "loop"
  /\ UNCHANGED <<limit, splitLong, msg, carve, round, first>>
  /\ UNCHANGED notSeg

\* mutant of ChunkEnd: the window is one code point too long
MutChunkEndOver(rs, s, n) ==
  LET e0 == Min(s + n + 1, Len(rs))
      idx == LastSpace(Slice(rs, s, e0))
  IN  IF e0 < Len(rs) /\ idx > 0 THEN s + idx ELSE e0

\* mutant of ChunkEnd: a window without a space grows to the end of its word
MutChunkEndWholeWord(rs, s, n) ==
  LET e0 == Min(s + n, Len(rs))
      idx == LastSpace(Slice(rs, s, e0))
      stops == {p \in e0..Len(rs) : p = Len(rs) \/ rs[p + 1] = SpaceRune}
  IN  IF e0 < Len(rs) /\ idx > 0 THEN s + idx
      ELSE IF e0 < Len(rs) /\ idx = -1
        THEN CHOOSE p \in stops : \A q \in stops : p <= q
      ELSE e0

\* mutant of ChunkEnd: a space at the first position of the window cuts too
MutChunkEndAtFirst(rs, s, n) ==
  LET e0 == Min(s + n, Len(rs))
      idx == LastSpace(Slice(rs, s, e0))
  IN  IF e0 < Len(rs) /\ idx >= 0 THEN s + idx ELSE e0

\* the end of the chunk carved at the cursor s: the window runes[s:e0] is cut
\* before its last space unless it reaches the end or has no space past its
\* first position
ChunkEnd(rs, s, n) ==
  LET e0 == Min(s + n, Len(rs))
      idx == LastSpace(Slice(rs, s, e0))
  IN  IF e0 < Len(rs) /\ idx > 0 THEN s + idx ELSE e0

\* mutant of NextStart: one space is skipped, not the run of them
MutNextStartOne(rs, e) ==
  IF e < Len(rs) /\ rs[e + 1] = SpaceRune THEN e + 1 ELSE e

\* mutant of NextStart: the cursor moves over one code point, space or not
MutNextStartAny(rs, e) == IF e < Len(rs) THEN e + 1 ELSE e

\* where the cursor goes after a chunk that ends at e
NextStart(rs, e) == SkipSpaces(rs, e)

\* one iteration of the loop; the loop ends when the cursor reaches len(runes)
SegLoop ==
  /\ pc = "loop"
  /\ start < Len(runes)
  /\ LET e0 == Min(start + limit, Len(runes))
         end == ChunkEnd(runes, start, limit)
     IN  /\ out' = Append(out, String(Slice(runes, start, end)))
         /\ carve' = <<start, e0, end>>
         /\ start' = NextStart(runes, end)
  /\ pc' = IF start' < Len(runes) THEN "loop" ELSE "done"
  /\ UNCHANGED <<limit, splitLong, msg, runes, round, first>>
  /\ UNCHANGED notSeg

\* segmentMessage called again, on the first chunk it returned
SegAgain ==
  /\ pc = "done"
  /\ round = 1
  /\ first' = [msg |-> msg, out |-> out]
  /\ msg' = out[1]
  /\ round' = 2
  /\ pc' = "entry"
  /\ runes' = <<>>
  /\ start' = 0
  /\ carve' = NoCarve
  /\ out' = <<>>
  /\ UNCHANGED <<limit, splitLong>>
  /\ UNCHANGED notSeg

SegNext ==
  \/ SegNoLimit
  \/ SegFits
  \/ SegTruncate
  \/ SegSplit
  \/ SegLoop
  \/ SegAgain

SegSpec == SegInit /\ [][SegNext]_vars


\* ------------------------------------------------------------------------
\* Client.Broadcast, Client.SendTo, Client.sendPrepared
\* ------------------------------------------------------------------------

\* segmentMessage, the loop of split mode from the cursor s on
RECURSIVE SplitFrom(_, _, _)

\* one iteration of that loop, end the end of the chunk carved at s
SplitStep(rs, s, n, end) ==
  <<String(Slice(rs, s, end))>> \o SplitFrom(rs, NextStart(rs, end), n)

SplitFrom(rs, s, n) ==
  IF s < Len(rs) THEN SplitStep(rs, s, n, ChunkEnd(rs, s, n)) ELSE <<>>

\* segmentMessage, rs the runes of msg
SegmentRunes(m, rs, n, split) ==
  IF n <= 0 THEN <<m>>
  ELSE IF Len(rs) <= n THEN <<m>>
  ELSE IF ~split THEN <<Truncated(rs, n)>>
  ELSE SplitFrom(rs, 0, n)

\* c.segmentMessage(msg), with n = cfg.MaxMessageLen, split = cfg.SplitLong
SegmentMessage(m, n, split) == SegmentRunes(m, Runes(m), n, split)

\* the channel names of the model
ChanNames == {<<"#", "a">>, <<"#", "b">>}

\* the bytes of a message given to the client
SendBytes == {SpaceRune, 97}

SndInit ==
  /\ cliChannels \in SeqsUpTo(ChanNames, MaxChans)
  /\ cliLimit \in 0..MaxLimit
  /\ cliSplit \in BOOLEAN
  /\ sndPc = "idle"
  /\ sndKind = ""
  /\ sndArg = <<>>
  /\ sndMsg = <<>>
  /\ sndB = 0
  /\ sndChans = <<>>
  /\ sndSegs = <<>>
  /\ sndI = 0
  /\ sndJ = 0
  /\ privmsgs = <<>>
  /\ SegIdle
  /\ HLIdle
  /\ PtIdle
  /\ ConnIdle
  /\ SrvIdle
  /\ RecIdle
  /\ JoinIdle

\* c.sendPrepared(channels, msg) is entered: segs := c.segmentMessage(msg)
EnterSendPrepared(channels, m) ==
  /\ sndChans' = channels
  /\ sndSegs' = SegmentMessage(m, cliLimit, cliSplit)
  /\ sndI' = 1
  /\ sndJ' = 1
  /\ sndPc' = "send"

\* c.SendTo(channels, msg)
SndSendTo(channels, m) ==
  /\ sndPc = "idle"
  /\ sndKind' = "SendTo"
  /\ sndArg' = channels
  /\ sndMsg' = m
  /\ EnterSendPrepared(channels, m)
  /\ UNCHANGED <<cliChannels, cliLimit, cliSplit, sndB, privmsgs>>
  /\ UNCHANGED notSnd

\* c.Broadcast(msg), up to its loop
SndBroadcast(m) ==
  /\ sndPc = "idle"
  /\ sndKind' = "Broadcast"
  /\ sndMsg' = m
  /\ sndB' = 1
  /\ sndPc' = "bcast"
  /\ UNCHANGED <<cliChannels, cliLimit, cliSplit, sndArg, sndChans, sndSegs, sndI, sndJ,
                 privmsgs>>
  /\ UNCHANGED notSnd

\* Broadcast, one round of its loop: c.sendPrepared([]string{ch}, msg)
SndBroadcastCh ==
  /\ sndPc = "bcast"
  /\ sndB <= Len(cliChannels)
  /\ EnterSendPrepared(<<cliChannels[sndB]>>, sndMsg)
  /\ UNCHANGED <<cliChannels, cliLimit, cliSplit, sndKind, sndArg, sndMsg, sndB, privmsgs>>
  /\ UNCHANGED notSnd

\* Broadcast returns after the last channel
SndBroadcastEnd ==
  /\ sndPc = "bcast"
  /\ sndB > Len(cliChannels)
  /\ sndPc' = "done"
  /\ UNCHANGED <<cliChannels, cliLimit, cliSplit, sndKind, sndArg, sndMsg, sndB, sndChans,
                 sndSegs, sndI, sndJ, privmsgs>>
  /\ UNCHANGED notSnd

\* sendPrepared, one round of the inner loop: c.conn.Privmsg(ch, seg)
SndPrivmsg ==
  /\ sndPc = "send"
  /\ sndI <= Len(sndSegs)
  /\ sndJ <= Len(sndChans)
  /\ privmsgs' = Append(privmsgs, <<sndChans[sndJ], sndSegs[sndI]>>)
  /\ sndJ' = sndJ + 1
  /\ UNCHANGED <<cliChannels, cliLimit, cliSplit, sndPc, sndKind, sndArg, sndMsg, sndB,
                 sndChans, sndSegs, sndI>>
  /\ UNCHANGED notSnd

\* SndNextSeg, had the inner loop gone on where it stopped for the segment
\* before
MutSndNextSegKeepJ ==
  /\ sndPc = "send"
  /\ sndI <= Len(sndSegs)
  /\ sndJ > Len(sndChans)
  /\ sndI' = sndI + 1
  /\ UNCHANGED <<cliChannels, cliLimit, cliSplit, sndPc, sndKind, sndArg, sndMsg, sndB,
                 sndChans, sndSegs, sndJ, privmsgs>>
  /\ UNCHANGED notSnd

\* sendPrepared, the inner loop is over: the next segment
SndNextSeg ==
  /\ sndPc = "send"
  /\ sndI <= Len(sndSegs)
  /\ sndJ > Len(sndChans)
  /\ sndI' = sndI + 1
  /\ sndJ' = 1
  /\ UNCHANGED <<cliChannels, cliLimit, cliSplit, sndPc, sndKind, sndArg, sndMsg, sndB,
                 sndChans, sndSegs, privmsgs>>
  /\ UNCHANGED notSnd

\* sendPrepared returns: to Broadcast's loop, or SendTo returns
SndReturn ==
  /\ sndPc = "send"
  /\ sndI > Len(sndSegs)
  /\ sndPc' = IF sndKind = "Broadcast" THEN "bcast" ELSE "done"
  /\ sndB' = IF sndKind = "Broadcast" THEN sndB + 1 ELSE sndB
  /\ UNCHANGED <<cliChannels, cliLimit, cliSplit, sndKind, sndArg, sndMsg, sndChans, sndSegs,
                 sndI, sndJ, privmsgs>>
  /\ UNCHANGED notSnd

SndNext ==
  \/ \E channels \in SeqsUpTo(ChanNames, MaxChans), m \in SeqsUpTo(SendBytes, MaxSendLen) :
       SndSendTo(channels, m)
  \/ \E m \in SeqsUpTo(SendBytes, MaxSendLen) : SndBroadcast(m)
  \/ SndBroadcastCh
  \/ SndBroadcastEnd
  \/ SndPrivmsg
  \/ SndNextSeg
  \/ SndReturn

SndSpec == SndInit /\ [][SndNext]_vars
\* ------------------------------------------------------------------------
\* The highlighter: New, then a call of ApplyFor or Apply
\* ------------------------------------------------------------------------

KindRegex == <<"r", "e", "g", "e", "x">>

KindWord == <<"w", "o", "r", "d">>

\* a config.HighlightRule
Rule(kind, pattern, color, bold, underline, wholeLine, channels, exclude, groups) ==
  [Kind |-> kind, Pattern |-> pattern, Color |-> color, Bold |-> bold,
   Underline |-> underline, CaseInsensitive |-> FALSE, WholeLine |-> wholeLine,
   Channels |-> channels, ExcludeChannels |-> exclude, Groups |-> groups]

\* the rule descriptions a configuration is made of
RuleDescs ==
  { \* 1: the word a, bold, on every match
    Rule(KindWord, <<"a">>, <<>>, TRUE, FALSE, FALSE, <<>>, <<>>, <<>>),
    \* 2: b, the whole line in colour 4, not in #A
    Rule(KindRegex, <<"b">>, <<"4">>, FALSE, FALSE, TRUE, <<>>, <<<<"#", "A">>>>, <<>>),
    \* 3: a or nothing, the whole line underlined
    Rule(KindRegex, <<"a", "|">>, <<>>, FALSE, TRUE, TRUE, <<>>, <<>>, <<>>),
    \* 4: a, the whole line red, in #A only
    Rule(KindRegex, <<"a">>, <<"r", "e", "d">>, FALSE, FALSE, TRUE, <<<<"#", "A">>>>, <<>>, <<>>),
    \* 5: the word b, underlined, on every match, in #* but not in #N; the
    \*    first include entry is blank
    Rule(KindWord, <<"b">>, <<>>, FALSE, TRUE, FALSE, <<<<" ">>, <<"#", "*">>>>, <<<<"#", "N">>>>, <<>>),
    \* 6: a pattern that does not compile
    Rule(KindRegex, <<"(", "a">>, <<>>, TRUE, FALSE, FALSE, <<>>, <<>>, <<>>),
    \* 7: b after a space, bold; both filter lists hold blank entries only,
    \*    and the only group selector names a group the pattern has not
    Rule(KindRegex, <<" ", "b">>, <<>>, TRUE, FALSE, FALSE, <<<<" ">>, <<>>>>, <<<<>>>>, <<<<"x">>>>),
    \* 8: a before b, the group of the a in colour 4, the b as it is; the
    \*    selector 2 is the index of no group
    Rule(KindRegex, <<"(", "a", ")", "b">>, <<"4">>, FALSE, FALSE, FALSE, <<>>, <<>>, <<<<"2">>, <<"1">>>>)
  }

\* the channel arguments of a call
HLChannels == {<<>>, <<" ">>, <<"#", "A">>, <<"#", "n">>}

\* the characters of a text
TextChars == {"a", "b", " "}

\* the configurations New is given
HLConfigs == SeqsUpTo(RuleDescs, MaxRules)

\* the text arguments of a call
HLTexts == SeqsUpTo(TextChars, MaxTextLen)

HLInit ==
  /\ SegIdle
  /\ HLIdle
  /\ PtIdle
  /\ SndIdle
  /\ ConnIdle
  /\ SrvIdle
  /\ RecIdle
  /\ JoinIdle

\* highlight.New(hc)
HLNew(hc) ==
  /\ hlPc = "new"
  /\ hlCfg' = hc
  /\ hl' = New(hc)
  /\ hlPc' = "ready"
  /\ UNCHANGED <<hlChannel, hlText, hlApplied, hlOut>>
  /\ UNCHANGED notHL

\* h.ApplyFor(channel, s)
HLApplyFor(channel, s) ==
  /\ hlPc = "ready"
  /\ hlChannel' = channel
  /\ hlText' = s
  /\ hlApplied' = Applicable(hl, channel)
  /\ hlOut' = ApplyFor(hl, channel, s)
  /\ hlPc' = "returned"
  /\ UNCHANGED <<hlCfg, hl>>
  /\ UNCHANGED notHL

\* h.Apply(s): ApplyFor without a channel
HLApply(s) == HLApplyFor(<<>>, s)

HLNext ==
  \/ \E hc \in HLConfigs : HLNew(hc)
  \/ \E channel \in HLChannels, s \in HLTexts : HLApplyFor(channel, s)
  \/ \E s \in HLTexts : HLApply(s)

HLSpec == HLInit /\ [][HLNext]_vars

\* rule descriptions for New alone: good ones, and ones with an empty
\* pattern, an unknown kind, a pattern that does not compile
NewDescs ==
  { Rule(KindWord, <<"a">>, <<>>, TRUE, FALSE, FALSE, <<>>, <<>>, <<>>),
    Rule(KindRegex, <<"b">>, <<>>, FALSE, TRUE, FALSE, <<>>, <<>>, <<>>),
    Rule(<<>>, <<"a">>, <<"4">>, FALSE, FALSE, FALSE, <<>>, <<>>, <<>>),
    Rule(<<"W", "O", "R", "D">>, <<"b">>, <<>>, TRUE, TRUE, FALSE, <<>>, <<>>, <<>>),
    Rule(KindRegex, <<>>, <<>>, TRUE, FALSE, FALSE, <<>>, <<>>, <<>>),
    Rule(KindWord, <<" ">>, <<>>, FALSE, TRUE, FALSE, <<>>, <<>>, <<>>),
    Rule(<<"g", "l", "o", "b">>, <<"a">>, <<>>, TRUE, FALSE, FALSE, <<>>, <<>>, <<>>),
    Rule(KindRegex, <<"(", "a">>, <<>>, TRUE, FALSE, FALSE, <<>>, <<>>, <<>>),
    Rule(KindRegex, <<"a", ")">>, <<>>, FALSE, TRUE, FALSE, <<>>, <<>>, <<>>),
    Rule(KindWord, <<"(", "a">>, <<>>, FALSE, FALSE, TRUE, <<>>, <<>>, <<>>) }

\* highlight.New on its own
NewNext == \E hc \in SeqsUpTo(NewDescs, MaxRules) : HLNew(hc)

NewSpec == HLInit /\ [][NewNext]_vars

\* rule descriptions with channel globs, malformed ones among them: a class
\* that is not closed, an empty class, a backslash at the end
GlobDescs ==
  { Rule(KindRegex, <<"a">>, <<>>, TRUE, FALSE, FALSE, <<<<"[">>>>, <<>>, <<>>),
    Rule(KindRegex, <<"a">>, <<>>, TRUE, FALSE, FALSE, <<<<"[">>, <<"#", "a">>>>, <<>>, <<>>),
    Rule(KindRegex, <<"a">>, <<>>, TRUE, FALSE, FALSE, <<>>, <<<<"#", "[">>>>, <<>>),
    Rule(KindRegex, <<"a">>, <<>>, TRUE, FALSE, FALSE, <<<<"#", "*">>>>, <<<<"#", "a", "\\">>>>, <<>>),
    Rule(KindRegex, <<"a">>, <<>>, TRUE, FALSE, FALSE, <<>>, <<<<"#", "[", "]">>, <<"#", "b">>>>, <<>>),
    Rule(KindRegex, <<"a">>, <<>>, TRUE, FALSE, FALSE, <<<<"#", "[", "]">>, <<"#", "a", "\\">>>>, <<>>, <<>>),
    Rule(KindRegex, <<"a">>, <<>>, TRUE, FALSE, FALSE, <<<<"#", "[", "a", "b", "]">>>>, <<<<"#", "a">>>>, <<>>),
    Rule(KindRegex, <<"a">>, <<>>, TRUE, FALSE, FALSE, <<>>, <<>>, <<>>) }

\* the channel arguments of a call for a rule with such globs
GlobChannels == {<<>>, <<"#", "a">>, <<"#", "b">>, <<"#", "[">>, <<"[">>}

\* New, then ApplyFor, with these descriptions and channels
GlobNext ==
  \/ \E hc \in SeqsUpTo(GlobDescs, MaxRules) : HLNew(hc)
  \/ \E channel \in GlobChannels : HLApplyFor(channel, <<"a">>)

GlobSpec == HLInit /\ [][GlobNext]_vars

\* rule descriptions with group selectors, all bold: a group whose spans
\* touch from match to match, two groups that touch, a group inside a group,
\* a group that another alternative leaves unset, an empty group
GrpDescs ==
  { Rule(KindRegex, <<"(", "a", ")">>, <<>>, TRUE, FALSE, FALSE, <<>>, <<>>, <<<<"1">>>>),
    Rule(KindRegex, <<"(", "a", ")", "(", "b", ")">>, <<>>, TRUE, FALSE, FALSE, <<>>, <<>>,
         <<<<"1">>, <<"2">>>>),
    Rule(KindRegex, <<"(", "a", "(", "b", ")", ")">>, <<>>, TRUE, FALSE, FALSE, <<>>, <<>>,
         <<<<"2">>, <<"1">>>>),
    Rule(KindRegex, <<"(", "a", ")", "|", "b">>, <<>>, TRUE, FALSE, FALSE, <<>>, <<>>, <<<<"1">>>>),
    Rule(KindRegex, <<"(", ")", "a">>, <<>>, TRUE, FALSE, FALSE, <<>>, <<>>, <<<<"1">>>>) }

\* New, then Apply, with these descriptions
GrpNext ==
  \/ \E hc \in SeqsUpTo(GrpDescs, MaxRules) : HLNew(hc)
  \/ \E s \in SeqsUpTo({"a", "b"}, MaxGrpLen) : HLApply(s)

GrpSpec == HLInit /\ [][GrpNext]_vars

\* rule descriptions whose order matters: the word a in colour 4, the digit
\* 4 bold, b with the whole line red, the word b underlined, a bold
FoldDescs ==
  { Rule(KindWord, <<"a">>, <<"4">>, FALSE, FALSE, FALSE, <<>>, <<>>, <<>>),
    Rule(KindRegex, <<"4">>, <<>>, TRUE, FALSE, FALSE, <<>>, <<>>, <<>>),
    Rule(KindRegex, <<"b">>, <<"r", "e", "d">>, FALSE, FALSE, TRUE, <<>>, <<>>, <<>>),
    Rule(KindWord, <<"b">>, <<>>, FALSE, TRUE, FALSE, <<>>, <<>>, <<>>),
    Rule(KindRegex, <<"a">>, <<>>, TRUE, FALSE, FALSE, <<>>, <<>>, <<>>) }

\* New, then Apply, with these descriptions
FoldNext ==
  \/ \E hc \in SeqsUpTo(FoldDescs, MaxRules) : HLNew(hc)
  \/ \E s \in HLTexts : HLApply(s)

FoldSpec == HLInit /\ [][FoldNext]_vars

\* ------------------------------------------------------------------------
\* The TCP server: parseTargets
\* ------------------------------------------------------------------------

\* what parseTargets returns
Parsed(targets, m) == [targets |-> targets, msg |-> m]

\* strings.Cut(s, sep), given the positions of sep in s
CutAt(s, at) ==
  IF at = {} THEN [before |-> s, after |-> <<>>, found |-> FALSE]
  ELSE [before |-> SubSeq(s, 1, FirstOf(at, 0) - 1),
        after |-> SubSeq(s, FirstOf(at, 0) + 1, Len(s)),
        found |-> TRUE]

\* strings.Cut(s, sep)
Cut(s, sep) == CutAt(s, {i \in 1..Len(s) : s[i] = sep})

\* the token has a channel prefix
HasChanPrefix(ch) == HasPrefix(ch, <<"#">>) \/ HasPrefix(ch, <<"&">>)

\* parseTargets, the channel a token stands for: "#" put before a token
\* without prefix
WithPrefix(ch) == IF HasChanPrefix(ch) THEN ch ELSE <<"#">> \o ch

\* AddTarget, had seen been keyed by the channel as spelt
MutAddTargetCaseSensitive(acc, ch) ==
  IF ch = <<>> THEN acc
  ELSE IF WithPrefix(ch) \in acc.seen THEN acc
  ELSE [out |-> Append(acc.out, WithPrefix(ch)), seen |-> acc.seen \cup {WithPrefix(ch)}]

\* parseTargets, one round of the loop over the tokens, ch the token
\* trimmed: acc holds out and seen
AddTarget(acc, ch) ==
  IF ch = <<>> THEN acc
  ELSE IF ToLower(WithPrefix(ch)) \in acc.seen THEN acc
  ELSE [out |-> Append(acc.out, WithPrefix(ch)),
        seen |-> acc.seen \cup {ToLower(WithPrefix(ch))}]

\* parseTargets, the loop over the tokens from k on
RECURSIVE CollectTargets(_, _, _)
CollectTargets(chTokens, k, acc) ==
  IF k > Len(chTokens) THEN acc.out
  ELSE CollectTargets(chTokens, k + 1, AddTarget(acc, TrimSpace(chTokens[k])))

\* parseTargets, from the cut on
ParseCut(c) ==
  Parsed(CollectTargets(Split(c.before, ","), 1, [out |-> <<>>, seen |-> {}]),
         IF c.found THEN TrimSpace(c.after) ELSE <<>>)

\* parseTargets, the line trimmed
ParseTrimmed(s) ==
  IF s = <<>> THEN Parsed(<<>>, <<>>)
  ELSE IF ~HasChanPrefix(s) THEN Parsed(<<>>, s)
  ELSE ParseCut(Cut(s, " "))

\* parseTargets
ParseTargets(line) == ParseTrimmed(TrimSpace(line))

\* the characters of a line
LineChars == {"#", "&", ",", " ", "\t", "a", "A"}

PtInit ==
  /\ ptLine \in SeqsUpTo(LineChars, MaxLineLen)
  /\ ptPc = "entry"
  /\ ptTargets = <<>>
  /\ ptMsg = <<>>
  /\ SegIdle
  /\ HLIdle
  /\ SndIdle
  /\ ConnIdle
  /\ SrvIdle
  /\ RecIdle
  /\ JoinIdle

\* targets, msg := parseTargets(line)
PtParse ==
  /\ ptPc = "entry"
  /\ ptTargets' = ParseTargets(ptLine).targets
  /\ ptMsg' = ParseTargets(ptLine).msg
  /\ ptPc' = "done"
  /\ UNCHANGED ptLine
  /\ UNCHANGED notPt

PtNext == PtParse

PtSpec == PtInit /\ [][PtNext]_vars

\* ------------------------------------------------------------------------
\* The TCP server: handleConn, applyHL, broadcast
\* ------------------------------------------------------------------------

\* strings.TrimRight(s, cutset)
TrimRight(s, cutset) ==
  SubSeq(s, 1, FirstOf({n \in 0..Len(s) : \A i \in (n + 1)..Len(s) : s[i] \in cutset}, 0))

\* s.applyHL(channel, msg), h the value of s.HL it reads
ApplyHL(h, channel, m) == IF h = <<>> THEN m ELSE ApplyFor(h[1], channel, m)

\* TargetCalls, had applyHL been given no channel
MutTargetCallsNoChannel(h, ch, m) ==
  << <<"applyHL", <<>>, m>>, <<"SendTo", <<ch>>, ApplyHL(h, <<>>, m)>> >>

\* handleConn, one round of the loop over targets: the calls it makes
TargetCalls(h, ch, m) ==
  << <<"applyHL", ch, m>>, <<"SendTo", <<ch>>, ApplyHL(h, ch, m)>> >>

\* s.broadcast(line): the calls it makes
BroadcastCalls(h, line) ==
  << <<"applyHL", <<>>, line>>, <<"Broadcast", <<>>, ApplyHL(h, <<>>, line)>> >>

\* Dispatch, without the look at the message after the targets
MutDispatchNoBlankCheck(line, p) ==
  IF line = <<>> THEN "done"
  ELSE IF Len(p.targets) = 0 THEN "bcast"
  ELSE "loop"

\* handleConn, what it does with a line, p what parseTargets(line) returned
Dispatch(line, p) ==
  IF line = <<>> THEN "done"
  ELSE IF Len(p.targets) = 0 THEN "bcast"
  ELSE IF TrimSpace(p.msg) = <<>> THEN "done"
  ELSE "loop"

\* the characters of a line a connection sends
ConnChars == {"#", ",", " ", "a", "\r"}

\* the values of s.HL: nil, a Highlighter with a rule for every channel
\* before a whole-line rule for the channel #a, and one whose only rule is
\* for every channel but #
ConnHLs ==
  { <<>>,
    <<New(<< Rule(KindWord, <<"a">>, <<>>, TRUE, FALSE, FALSE, <<>>, <<>>, <<>>),
             Rule(KindRegex, <<"a">>, <<"r", "e", "d">>, FALSE, FALSE, TRUE,
                  <<<<"#", "A">>>>, <<>>, <<>>) >>)>>,
    <<New(<< Rule(KindRegex, <<"a">>, <<>>, FALSE, TRUE, FALSE, <<>>, <<<<"#">>>>, <<>>) >>)>> }

ConnInit ==
  /\ srvHL \in ConnHLs
  /\ connText \in SeqsUpTo(ConnChars, MaxConnLen)
  /\ connLine = <<>>
  /\ connPc = "scan"
  /\ connTargets = <<>>
  /\ connMsg = <<>>
  /\ connK = 0
  /\ connCalls = <<>>
  /\ SegIdle
  /\ HLIdle
  /\ PtIdle
  /\ SndIdle
  /\ SrvQuiet
  /\ RecIdle
  /\ JoinIdle

\* handleConn, from the line scanned to the choice of what to do with it
ConnRead ==
  /\ connPc = "scan"
  /\ connLine' = TrimRight(connText, {"\r", "\n"})
  /\ connTargets' = ParseTargets(connLine').targets
  /\ connMsg' = ParseTargets(connLine').msg
  /\ connPc' = Dispatch(connLine', ParseTargets(connLine'))
  /\ connK' = 1
  /\ UNCHANGED <<connText, connCalls>>
  /\ UNCHANGED notConn

\* handleConn: s.broadcast(line)
ConnBroadcast ==
  /\ connPc = "bcast"
  /\ connCalls' = connCalls \o BroadcastCalls(srvHL, connLine)
  /\ connPc' = "done"
  /\ UNCHANGED <<connText, connLine, connTargets, connMsg, connK>>
  /\ UNCHANGED notConn

\* handleConn, one round of the loop over targets
ConnSendTo ==
  /\ connPc = "loop"
  /\ connK <= Len(connTargets)
  /\ connCalls' = connCalls \o TargetCalls(srvHL, connTargets[connK], connMsg)
  /\ connK' = connK + 1
  /\ UNCHANGED <<connText, connLine, connPc, connTargets, connMsg>>
  /\ UNCHANGED notConn

\* handleConn, the loop over targets is over
ConnLoopEnd ==
  /\ connPc = "loop"
  /\ connK > Len(connTargets)
  /\ connPc' = "done"
  /\ UNCHANGED <<connText, connLine, connTargets, connMsg, connK, connCalls>>
  /\ UNCHANGED notConn

ConnNext ==
  \/ ConnRead
  \/ ConnBroadcast
  \/ ConnSendTo
  \/ ConnLoopEnd

ConnSpec == ConnInit /\ [][ConnNext]_vars

\* ------------------------------------------------------------------------
\* The TCP server: applyHL in the connection handlers while SetHighlighter
\* replaces s.HL
\* ------------------------------------------------------------------------

\* the values of s.HL: nil, a Highlighter whose rule styles the whole line,
\* and one whose rule styles every match
SrvHLs ==
  { <<>>,
    <<New(<< Rule(KindRegex, <<"a">>, <<"r", "e", "d">>, FALSE, FALSE, TRUE,
                  <<>>, <<>>, <<>>) >>)>>,
    <<New(<< Rule(KindWord, <<"a">>, <<>>, TRUE, FALSE, FALSE, <<>>, <<>>, <<>>) >>)>> }

\* the msg arguments of applyHL
SrvTexts == {<<"a">>, <<"a", " ", "b">>}

\* the channel arguments of applyHL
SrvChannels == {<<"#", "a">>}

SrvInit ==
  /\ srvHL \in SrvHLs
  /\ SrvQuiet
  /\ SegIdle
  /\ HLIdle
  /\ PtIdle
  /\ SndIdle
  /\ ConnIdle
  /\ RecIdle
  /\ JoinIdle

\* InUse, had ApplyFor gone back to s.HL for its rules
MutInUseShared(local, shared) == IF shared = <<>> THEN local ELSE shared

\* the Highlighter whose rules ApplyFor reads: its receiver, applyHL's local hl
InUse(local, shared) == local

\* ApplyFor up to the end of the first loop, w the whole-line rule it found,
\* or 0
FirstLoop(rules, m, w) ==
  IF w # 0 THEN [pc |-> "ret", out |-> rules[w].stylePref \o m \o <<ircReset>>]
  ELSE [pc |-> "match", out |-> m]

\* ApplyFor up to the end of the first loop
FirstPass(rules, channel, m) ==
  IF m = <<>> \/ Len(rules) = 0 THEN [pc |-> "ret", out |-> m]
  ELSE FirstLoop(rules, m, WholeLineHit(rules, ChLower(channel), m))

\* the handler h after the step that left it at r.pc with the output r.out
After(h, r) == [h EXCEPT !.pc = r.pc, !.out = r.out]

\* a handler enters s.applyHL(channel, msg)
HCall(p, channel, m) ==
  /\ hnd[p].pc = "idle"
  /\ hnd' = [hnd EXCEPT ![p] = [HndIdle EXCEPT !.pc = "rlock", !.ch = channel, !.msg = m]]
  /\ UNCHANGED <<srvHL, mu, rl, reloads, lastRet>>
  /\ UNCHANGED notSrv

\* s.mu.RLock(): it waits while a writer holds the guard or waits for it
HRLock(p) ==
  /\ hnd[p].pc = "rlock"
  /\ ~mu.writer
  /\ ~mu.pending
  /\ mu' = [mu EXCEPT !.readers = @ \cup {p}]
  /\ hnd' = [hnd EXCEPT ![p].pc = "read"]
  /\ UNCHANGED <<srvHL, rl, reloads, lastRet>>
  /\ UNCHANGED notSrv

\* hl := s.HL
HRead(p) ==
  /\ hnd[p].pc = "read"
  /\ hnd' = [hnd EXCEPT ![p].local = srvHL,
                        ![p].adm = IF rl.pc = "idle" THEN {lastRet} ELSE {lastRet, rl.arg},
                        ![p].pc = "runlock"]
  /\ UNCHANGED <<srvHL, mu, rl, reloads, lastRet>>
  /\ UNCHANGED notSrv

\* HRUnlock, had the guard been kept while ApplyFor runs
MutHRUnlockDeferred(p) ==
  /\ hnd[p].pc = "runlock"
  /\ hnd' = [hnd EXCEPT ![p].pc = "whole"]
  /\ UNCHANGED <<srvHL, mu, rl, reloads, lastRet>>
  /\ UNCHANGED notSrv

\* s.mu.RUnlock()
HRUnlock(p) ==
  /\ hnd[p].pc = "runlock"
  /\ mu' = [mu EXCEPT !.readers = @ \ {p}]
  /\ hnd' = [hnd EXCEPT ![p].pc = "whole"]
  /\ UNCHANGED <<srvHL, rl, reloads, lastRet>>
  /\ UNCHANGED notSrv

\* if hl == nil { return msg }, else hl.ApplyFor(channel, msg) up to the end
\* of its first loop
HWholeLine(p) ==
  /\ hnd[p].pc = "whole"
  /\ hnd' = [hnd EXCEPT ![p] =
               IF @.local = <<>> THEN After(@, [pc |-> "ret", out |-> @.msg])
               ELSE After(@, FirstPass(InUse(@.local, srvHL)[1], @.ch, @.msg))]
  /\ UNCHANGED <<srvHL, mu, rl, reloads, lastRet>>
  /\ UNCHANGED notSrv

\* hl.ApplyFor(channel, msg), its second loop
HPerMatch(p) ==
  /\ hnd[p].pc = "match"
  /\ hnd' = [hnd EXCEPT ![p] =
               After(@, [pc |-> "ret",
                         out |-> PerMatch(InUse(@.local, srvHL)[1], 1, ChLower(@.ch), @.out)])]
  /\ UNCHANGED <<srvHL, mu, rl, reloads, lastRet>>
  /\ UNCHANGED notSrv

\* applyHL returns hnd[p].out
HReturn(p) ==
  /\ hnd[p].pc = "ret"
  /\ hnd' = [hnd EXCEPT ![p] = HndIdle]
  /\ UNCHANGED <<srvHL, mu, rl, reloads, lastRet>>
  /\ UNCHANGED notSrv

\* s.SetHighlighter(h) is called, and s.mu.Lock() makes the readers to come
\* wait
RlCall(h) ==
  /\ rl.pc = "idle"
  /\ reloads < MaxReloads
  /\ rl' = [pc |-> "lock", arg |-> h]
  /\ mu' = [mu EXCEPT !.pending = TRUE]
  /\ reloads' = reloads + 1
  /\ UNCHANGED <<srvHL, hnd, lastRet>>
  /\ UNCHANGED notSrv

\* s.mu.Lock() returns when no reader holds the guard
RlLock ==
  /\ rl.pc = "lock"
  /\ mu.readers = {}
  /\ mu' = [mu EXCEPT !.writer = TRUE, !.pending = FALSE]
  /\ rl' = [rl EXCEPT !.pc = "write"]
  /\ UNCHANGED <<srvHL, hnd, reloads, lastRet>>
  /\ UNCHANGED notSrv

\* s.HL = h
RlWrite ==
  /\ rl.pc = "write"
  /\ srvHL' = rl.arg
  /\ rl' = [rl EXCEPT !.pc = "unlock"]
  /\ UNCHANGED <<mu, hnd, reloads, lastRet>>
  /\ UNCHANGED notSrv

\* s.mu.Unlock()
RlUnlock ==
  /\ rl.pc = "unlock"
  /\ mu' = [mu EXCEPT !.writer = FALSE]
  /\ rl' = [rl EXCEPT !.pc = "logf"]
  /\ UNCHANGED <<srvHL, hnd, reloads, lastRet>>
  /\ UNCHANGED notSrv

\* s.logf(...), and SetHighlighter returns
RlReturn ==
  /\ rl.pc = "logf"
  /\ lastRet' = rl.arg
  /\ rl' = [pc |-> "idle", arg |-> <<>>]
  /\ UNCHANGED <<srvHL, mu, hnd, reloads>>
  /\ UNCHANGED notSrv

\* the step of the handler p
HStep(p) ==
  \/ \E channel \in SrvChannels, m \in SrvTexts : HCall(p, channel, m)
  \/ HRLock(p)
  \/ HRead(p)
  \/ HRUnlock(p)
  \/ HWholeLine(p)
  \/ HPerMatch(p)
  \/ HReturn(p)

SrvNext ==
  \/ \E p \in Handlers : HStep(p)
  \/ \E h \in SrvHLs : RlCall(h)
  \/ RlLock
  \/ RlWrite
  \/ RlUnlock
  \/ RlReturn

SrvSpec == SrvInit /\ [][SrvNext]_vars

\* ------------------------------------------------------------------------
\* The IRC client: Close, the disconnected handler, the reconnector
\* ------------------------------------------------------------------------

\* reconnector: backoff := 1 * time.Second
InitialBackoff == 1

\* reconnector: max := 30 * time.Second
MaxBackoff == 30

\* NextBackoff, without the cap
MutNextBackoffNoCap(b) == IF b < MaxBackoff THEN b * 2 ELSE b

\* reconnector, the backoff after a failed ConnectTo
NextBackoff(b) ==
  IF b < MaxBackoff THEN (IF b * 2 > MaxBackoff THEN MaxBackoff ELSE b * 2) ELSE b

\* Start has begun the reconnector, which has set its locals and stands at
\* the outer select
RecInit ==
  /\ stopClosed = FALSE
  /\ reconnCh = 0
  /\ rcPc = "select"
  /\ backoff = InitialBackoff
  /\ fails = 0
  /\ lateAttempts = 0
  /\ closes = 0
  /\ coalesced = FALSE
  /\ SegIdle
  /\ HLIdle
  /\ PtIdle
  /\ SndIdle
  /\ ConnIdle
  /\ SrvIdle
  /\ JoinIdle

\* the handler of "disconnected": the send into c.reconnCh, or default when
\* it is full
Disconnected ==
  /\ reconnCh' = 1
  /\ coalesced' = (coalesced \/ reconnCh = 1)
  /\ UNCHANGED <<stopClosed, rcPc, backoff, fails, lateAttempts, closes>>
  /\ UNCHANGED notRec

\* c.Close(): close(c.stop) unless it is closed
Close ==
  /\ closes < MaxCloses
  /\ stopClosed' = TRUE
  /\ closes' = closes + 1
  /\ UNCHANGED <<reconnCh, rcPc, backoff, fails, lateAttempts, coalesced>>
  /\ UNCHANGED notRec

\* reconnector, the outer select: case <-c.stop
RcStop ==
  /\ rcPc = "select"
  /\ stopClosed
  /\ rcPc' = "done"
  /\ UNCHANGED <<stopClosed, reconnCh, backoff, fails, lateAttempts, closes, coalesced>>
  /\ UNCHANGED notRec

\* reconnector, the outer select: case <-c.reconnCh
RcSignal ==
  /\ rcPc = "select"
  /\ reconnCh = 1
  /\ reconnCh' = 0
  /\ rcPc' = "check"
  /\ UNCHANGED <<stopClosed, backoff, fails, lateAttempts, closes, coalesced>>
  /\ UNCHANGED notRec

\* reconnector, the inner select: return when c.stop is closed, else go on
RcCheck ==
  /\ rcPc = "check"
  /\ rcPc' = IF stopClosed THEN "done" ELSE "sleep"
  /\ UNCHANGED <<stopClosed, reconnCh, backoff, fails, lateAttempts, closes, coalesced>>
  /\ UNCHANGED notRec

\* reconnector: time.Sleep(backoff) returns
RcSleep ==
  /\ rcPc = "sleep"
  /\ rcPc' = "connect"
  /\ UNCHANGED <<stopClosed, reconnCh, backoff, fails, lateAttempts, closes, coalesced>>
  /\ UNCHANGED notRec

\* reconnector: c.conn.ConnectTo fails
RcConnectFail ==
  /\ rcPc = "connect"
  /\ fails < MaxFails
  /\ lateAttempts' = IF stopClosed THEN lateAttempts + 1 ELSE lateAttempts
  /\ backoff' = NextBackoff(backoff)
  /\ fails' = fails + 1
  /\ rcPc' = "check"
  /\ UNCHANGED <<stopClosed, reconnCh, closes, coalesced>>
  /\ UNCHANGED notRec

\* reconnector: c.conn.ConnectTo succeeds
RcConnectOk ==
  /\ rcPc = "connect"
  /\ lateAttempts' = IF stopClosed THEN lateAttempts + 1 ELSE lateAttempts
  /\ backoff' = InitialBackoff
  /\ fails' = 0
  /\ rcPc' = "select"
  /\ UNCHANGED <<stopClosed, reconnCh, closes, coalesced>>
  /\ UNCHANGED notRec

RecNext ==
  \/ Disconnected
  \/ Close
  \/ RcStop
  \/ RcSignal
  \/ RcCheck
  \/ RcSleep
  \/ RcConnectFail
  \/ RcConnectOk

RecSpec == RecInit /\ [][RecNext]_vars

\* ------------------------------------------------------------------------
\* The IRC client: the channels joined on connect and those Broadcast
\* sends to
\* ------------------------------------------------------------------------

\* ensureChanPrefix
EnsureChanPrefix(ch) ==
  LET t == TrimSpace(ch)
  IN  IF t = <<>> THEN t
      ELSE IF HasPrefix(t, <<"#">>) \/ HasPrefix(t, <<"&">>) THEN t
      ELSE <<"#">> \o t

\* the channel names of a configuration, as they are written there
CfgNames ==
  {<<"#", "a">>, <<"&", "b">>, <<"a">>, <<" ", "a">>, <<"#", "a", " ">>, <<" ">>, <<>>}

NickServ == <<"N", "i", "c", "k", "S", "e", "r", "v">>

\* a client that is not connected yet, with no length limit
JoinInit ==
  /\ cliChannels \in SeqsUpTo(CfgNames, MaxChans)
  /\ cliLimit = 0
  /\ cliSplit = FALSE
  /\ sndPc = "idle"
  /\ sndKind = ""
  /\ sndArg = <<>>
  /\ sndMsg = <<>>
  /\ sndB = 0
  /\ sndChans = <<>>
  /\ sndSegs = <<>>
  /\ sndI = 0
  /\ sndJ = 0
  /\ privmsgs = <<>>
  /\ JoinIdle
  /\ SegIdle
  /\ HLIdle
  /\ PtIdle
  /\ ConnIdle
  /\ SrvIdle
  /\ RecIdle

\* the handler of "connected", the first time: the identify message when
\* there is a password, a JOIN for every configured channel (with the key
\* when c.cfg.Keys has one for the name joined), and c.ready is closed
Connected(identify, keyed) ==
  /\ ~ready
  /\ sndPc = "idle"
  /\ onConnect' =
       (IF identify THEN << <<"PRIVMSG", NickServ, FALSE>> >> ELSE <<>>)
       \o [i \in 1..Len(cliChannels) |->
             <<"JOIN", EnsureChanPrefix(cliChannels[i]),
               EnsureChanPrefix(cliChannels[i]) \in keyed>>]
  /\ ready' = TRUE
  /\ UNCHANGED sndVars
  /\ UNCHANGED notJoin

\* the client connects, and then Broadcast is called
JoinNext ==
  \/ \E identify \in BOOLEAN, keyed \in SUBSET {<<"#", "a">>} : Connected(identify, keyed)
  \/ ready /\ SndBroadcast(<<97>>)
  \/ SndBroadcastCh
  \/ SndBroadcastEnd
  \/ SndPrivmsg
  \/ SndNextSeg
  \/ SndReturn

JoinSpec == JoinInit /\ [][JoinNext]_vars
\* ------------------------------------------------------------------------
\* Properties of segmentMessage
\* ------------------------------------------------------------------------

IsSpaceAt(rs, p) == p >= 0 /\ p < Len(rs) /\ rs[p + 1] = SpaceRune

\* the window of the last iteration, before it was shrunk
Window == Slice(runes, carve[1], carve[2])

\* the 0-based window positions > 0 that hold a space
InnerSpaces == {p \in 1..(Len(Window) - 1) : Window[p + 1] = SpaceRune}

Iterated == pc \in {"loop", "done"} /\ splitLong /\ carve # NoCarve

\* C1: in split mode with MaxMessageLen = n >= 1 every chunk returned (and
\* every chunk emitted so far) has at most n code points.
C1_ChunkLenBound ==
  (splitLong /\ limit >= 1) =>
    \A i \in 1..Len(out) : Len(Runes(out[i])) <= limit

\* C1 witness: a finished split into several chunks, one of them full
C1_Witness ==
  /\ pc = "done" /\ splitLong /\ round = 1
  /\ Len(out) >= 2
  /\ \E i \in 1..Len(out) : Len(Runes(out[i])) = limit

\* C2: truncate mode, message longer than maxLen: one chunk of exactly
\* maxLen code points; the first maxLen-3 code points and "..." if
\* maxLen > 3, else the first maxLen code points.
C2_TruncateShape ==
  (pc = "done" /\ ~splitLong /\ limit > 0 /\ Len(Runes(msg)) > limit) =>
    /\ Len(out) = 1
    /\ LET c == Runes(out[1])
           m == Runes(msg)
       IN  /\ Len(c) = limit
           /\ out[1] = String(c)
           /\ IF limit > 3
                THEN c = SubSeq(m, 1, limit - 3) \o Ellipsis
                ELSE c = SubSeq(m, 1, limit)

\* C2 witness: a truncation with the ellipsis whose chunk has more bytes
\* than code points
C2_Witness ==
  /\ pc = "done" /\ ~splitLong /\ limit > 3 /\ round = 1
  /\ Len(Runes(msg)) > limit
  /\ Len(out) = 1 /\ Len(out[1]) > limit

\* C3: with maxLen <= 0, or with a message of at most maxLen code points,
\* the result is [message], its bytes unchanged, in either mode.
C3_Verbatim ==
  (pc = "done" /\ (limit <= 0 \/ Len(Runes(msg)) <= limit)) => out = <<msg>>

\* C3 witness: a message that fits and is not valid UTF-8 came back as it was
C3_Witness ==
  /\ pc = "done" /\ round = 1 /\ limit > 0
  /\ Len(Runes(msg)) <= limit
  /\ String(Runes(msg)) # msg
  /\ out = <<msg>>

\* C4: truncating the chunk that truncation returned, with the same limit,
\* returns that chunk unchanged.
C4_TruncateIdempotent ==
  (pc = "done" /\ round = 2 /\ ~splitLong) =>
    /\ Len(first.out) = 1
    /\ out = first.out

\* C4 witness: the second call has returned and the first call did cut
C4_Witness ==
  /\ pc = "done" /\ round = 2 /\ ~splitLong
  /\ first.out # <<first.msg>>
  /\ out = first.out

\* the maximal runs of non-space code points of rs: <<from, to>>, 0-based,
\* to exclusive
Words(rs) ==
  {w \in (0..Len(rs)) \X (0..Len(rs)) :
     /\ w[1] < w[2]
     /\ \A p \in w[1]..(w[2] - 1) : ~IsSpaceAt(rs, p)
     /\ (w[1] = 0 \/ IsSpaceAt(rs, w[1] - 1))
     /\ (w[2] = Len(rs) \/ IsSpaceAt(rs, w[2]))}

\* xs occurs in ys as a contiguous run
OccursIn(xs, ys) ==
  \E k \in 0..(Len(ys) - Len(xs)) : Slice(ys, k, k + Len(xs)) = xs

\* C5 as stated: a window without a space that does not reach the end is
\* emitted as it is, and a word longer than the limit is not cut into
\* several chunks (it lies whole in one chunk).
C5_WordNeverCut ==
  /\ (Iterated /\ carve[2] < Len(runes) /\ LastSpace(Window) = -1) =>
       out[Len(out)] = String(Window)
  /\ (pc = "done" /\ splitLong /\ limit >= 1 /\ Len(Runes(msg)) > limit) =>
       \A w \in Words(runes) :
         (w[2] - w[1] > limit) =>
           \E i \in 1..Len(out) : OccursIn(Slice(runes, w[1], w[2]), Runes(out[i]))

\* C5 amended: a window without a space that does not reach the end is
\* emitted as it is, a chunk of exactly maxLen code points; when the word
\* goes on past the window it is cut there, and the rest of the word starts
\* the next chunk.
C5_WindowEmittedWordCut ==
  (Iterated /\ carve[2] < Len(runes) /\ LastSpace(Window) = -1) =>
    /\ out[Len(out)] = String(Window)
    /\ Len(Window) = limit
    /\ carve[3] = carve[2]
    /\ ~IsSpaceAt(runes, carve[2]) => (pc = "loop" /\ start = carve[2])

\* C5 witness: a window without a space was emitted and the word goes on
C5_Witness ==
  /\ Iterated /\ carve[2] < Len(runes) /\ LastSpace(Window) = -1
  /\ ~IsSpaceAt(runes, carve[2])
  /\ out[Len(out)] = String(Window)

\* C6: a window that does not reach the end and has a space at a position
\* > 0 gives the chunk that ends just before the last such space; so a
\* chunk ends between two non-space code points only when the window had no
\* space at a position > 0; a window that reaches the end is not shrunk.
C6_BreakAtLastSpace ==
  Iterated =>
    LET s == carve[1]
        e0 == carve[2]
        e == carve[3]
    IN  /\ out[Len(out)] = String(Slice(runes, s, e))
        /\ (e0 < Len(runes) /\ InnerSpaces # {}) =>
             /\ e - s \in InnerSpaces
             /\ \A p \in InnerSpaces : p <= e - s
        /\ (e < Len(runes) /\ ~IsSpaceAt(runes, e - 1) /\ ~IsSpaceAt(runes, e)) =>
             InnerSpaces = {}
        /\ (e0 = Len(runes)) => e = e0

\* C6 witness: a window with two spaces past its first position was shrunk
C6_Witness ==
  /\ Iterated /\ carve[2] < Len(runes)
  /\ Cardinality(InnerSpaces) >= 2
  /\ carve[3] < carve[2]

\* C7: after a chunk the cursor is past every space that follows it, so no
\* chunk but the first begins with a space, and the first does only if the
\* message does.
C7_NoLeadingSpace ==
  (splitLong /\ limit >= 1) =>
    /\ (pc = "loop" /\ out # <<>>) => ~IsSpaceAt(runes, start)
    /\ \A i \in 2..Len(out) : out[i] # <<>> /\ Runes(out[i])[1] # SpaceRune
    /\ (Len(out) >= 1 /\ out[1] # <<>> /\ Runes(out[1])[1] = SpaceRune) =>
         (msg # <<>> /\ Runes(msg)[1] = SpaceRune)

\* C7 witness: two spaces or more were skipped and a further chunk followed
C7_Witness ==
  /\ pc = "done" /\ splitLong /\ round = 1
  /\ Len(out) >= 2
  /\ \E p \in 0..(Len(runes) - 3) :
       /\ IsSpaceAt(runes, p) /\ IsSpaceAt(runes, p + 1)
       /\ Len(Runes(out[1])) = p


\* C27, as stated: in split mode with a limit of 1 or more, no chunk
\* segmentMessage returns is the empty string, and there are at most as many
\* chunks as the message has code points.
C27_NoEmptyChunk ==
  pc = "done" /\ splitLong /\ limit >= 1 =>
    /\ \A k \in 1..Len(out) : out[k] # <<>>
    /\ Len(out) <= Len(Runes(msg))

\* C27, amended: the same for every message that is not empty, and in the
\* loop every round carves a chunk that is not empty and leaves the cursor
\* beyond where it was and not beyond the end, with no more chunks than code
\* points before the cursor; the empty message comes back as one empty chunk.
C27_LoopAdvances ==
  splitLong /\ limit >= 1 =>
    /\ (pc \in {"loop", "done"} /\ carve # NoCarve) =>
         /\ carve[1] < carve[3]
         /\ carve[3] <= start
         /\ start <= Len(runes)
         /\ Len(out) <= start
         /\ out[Len(out)] # <<>>
    /\ (pc = "done" /\ msg # <<>>) =>
         /\ \A k \in 1..Len(out) : out[k] # <<>>
         /\ Len(out) <= Len(Runes(msg))
    /\ (pc = "done" /\ msg = <<>>) => out = << <<>> >>

\* the loop has ended after three rounds, the second of which had a space at
\* the first position of its window
C27_Witness ==
  /\ pc = "done"
  /\ round = 1
  /\ splitLong
  /\ Len(out) = 3
  /\ \E p \in 1..(Len(runes) - 1) : runes[p] = SpaceRune /\ runes[p + 1] = SpaceRune

\* the code points of rs that are not spaces, in order
NoSpaces(rs) == SelectSeq(rs, LAMBDA r : r # SpaceRune)

\* the code points of the chunks, in the order of the chunks
ChunkRunes(chunks) == Flatten([k \in 1..Len(chunks) |-> Runes(chunks[k])])

\* C28: in split mode the chunks in order hold every code point of the
\* message that is not a space, once and in the order of the message: the
\* chunks with the spaces removed are the message with the spaces removed,
\* and what the loop leaves out between one chunk and the next is spaces.
C28_NonSpacesKept ==
  splitLong =>
    /\ pc = "done" => NoSpaces(ChunkRunes(out)) = NoSpaces(Runes(msg))
    /\ (pc \in {"loop", "done"} /\ carve # NoCarve) =>
         /\ NoSpaces(ChunkRunes(out)) = NoSpaces(Slice(runes, 0, start))
         /\ \A p \in (carve[3] + 1)..start : runes[p] = SpaceRune

\* the loop has ended with two chunks and two spaces left out between them
C28_Witness ==
  /\ pc = "done"
  /\ round = 1
  /\ splitLong
  /\ Len(out) = 2
  /\ Len(ChunkRunes(out)) = Len(runes) - 2
  /\ NoSpaces(runes) # <<>>

\* ------------------------------------------------------------------------
\* Properties of the highlighter
\* ------------------------------------------------------------------------

\* the descriptions New made rules of, in order: hl[i] is made of Kept(hc)[i]
Kept(hc) == SelectSeq(hc, LAMBDA r : CompileRule(r).ok)

\* the rules that applied in the call and whose pattern matches the text
Matching == {i \in hlApplied : MatchString(hl[i].re, hlText)}

\* the whole-line rules among them
WholeLineHits == {i \in Matching : hl[i].wholeLine}

\* C8: ApplyFor returns the text as it is when the text is empty, when the
\* Highlighter holds no rule, when no rule applies to the channel, and when
\* the pattern of no rule that applies matches the text.
C8_Unchanged ==
  (/\ hlPc = "returned"
   /\ \/ hlText = <<>>
      \/ Len(hl) = 0
      \/ hlApplied = {}
      \/ Matching = {})
  => hlOut = hlText

\* a call with a text, where a rule applies and does not match and another
\* rule matches and does not apply
C8_Witness ==
  /\ hlPc = "returned"
  /\ hlText # <<>>
  /\ hlApplied # {}
  /\ Matching = {}
  /\ \E i \in 1..Len(hl) :
       /\ i \notin hlApplied
       /\ ~hl[i].wholeLine
       /\ MatchString(hl[i].re, hlText)
  /\ hlOut = hlText

\* C9, as stated: when a whole-line rule applies to the channel and matches
\* the text, ApplyFor returns the style of the first of them, the text and
\* the reset, and nothing of any other rule.
C9_WholeLineAnyText ==
  (hlPc = "returned" /\ WholeLineHits # {})
  => hlOut = hl[FirstOf(WholeLineHits, 0)].stylePref \o hlText \o <<ircReset>>

\* C9, amended: the same for a text that is not empty (the empty text is
\* returned as it is before any rule is looked at).
C9_WholeLineFirst ==
  (hlPc = "returned" /\ hlText # <<>> /\ WholeLineHits # {})
  => hlOut = hl[FirstOf(WholeLineHits, 0)].stylePref \o hlText \o <<ircReset>>

\* a call where a per-match rule that applies and matches is declared
\* before the whole-line rule that matches, in another style
C9_Witness ==
  /\ hlPc = "returned"
  /\ hlText # <<>>
  /\ \E i \in Matching, w \in WholeLineHits :
       /\ i < w
       /\ ~hl[i].wholeLine
       /\ hl[i].stylePref # hl[w].stylePref
       /\ w = FirstOf(WholeLineHits, 0)
       /\ hlOut = hl[w].stylePref \o hlText \o <<ircReset>>

\* a description whose Channels and ExcludeChannels hold no entry that is
\* not blank
NoGlobs(d) ==
  /\ \A i \in 1..Len(d.Channels) : TrimSpace(d.Channels[i]) = <<>>
  /\ \A i \in 1..Len(d.ExcludeChannels) : TrimSpace(d.ExcludeChannels[i]) = <<>>

\* C10: in a call whose channel is empty once trimmed, a rule applies if and
\* only if its description has no include and no exclude glob left once the
\* blank entries are dropped.
C10_NoChannelNoFilters ==
  (hlPc = "returned" /\ ChLower(hlChannel) = <<>>)
  => \A i \in 1..Len(hl) : (i \in hlApplied) <=> NoGlobs(Kept(hlCfg)[i])

\* a call with a blank channel where a rule with blank filter entries
\* applies and a rule with a glob does not
C10_Witness ==
  /\ hlPc = "returned"
  /\ hlChannel # <<>>
  /\ ChLower(hlChannel) = <<>>
  /\ \E i \in hlApplied :
       Len(Kept(hlCfg)[i].Channels) + Len(Kept(hlCfg)[i].ExcludeChannels) > 0
  /\ \E j \in 1..Len(hl) : j \notin hlApplied /\ hl[j].hasFilters

\* the globs of a list of a description: its entries that are not blank,
\* trimmed and lower-cased
GlobsOf(list) ==
  {ToLower(TrimSpace(list[i])) : i \in {j \in 1..Len(list) : TrimSpace(list[j]) # <<>>}}

\* a glob of the set matches the lower-cased channel of the call
SomeGlobMatches(globs) == \E g \in globs : GlobMatch(g, ChLower(hlChannel))

\* C11: in a call whose channel is not empty, a rule does not apply when an
\* exclude glob matches the lower-cased channel, also when an include glob
\* matches it; otherwise a rule with include globs applies if and only if
\* one of them matches, and a rule without include globs applies.
C11_ExcludeThenInclude ==
  (hlPc = "returned" /\ ChLower(hlChannel) # <<>>)
  => \A i \in 1..Len(hl) :
       LET inc == GlobsOf(Kept(hlCfg)[i].Channels)
           exc == GlobsOf(Kept(hlCfg)[i].ExcludeChannels)
       IN  (i \in hlApplied) <=>
             (~SomeGlobMatches(exc) /\ (inc # {} => SomeGlobMatches(inc)))

\* a call in a channel where one rule has both an include and an exclude
\* glob that match and does not apply, and another rule has only an exclude
\* glob, spelt in upper case, that does not match and applies
C11_Witness ==
  /\ hlPc = "returned"
  /\ ChLower(hlChannel) # <<>>
  /\ \E i \in 1..Len(hl) :
       /\ i \notin hlApplied
       /\ SomeGlobMatches(GlobsOf(Kept(hlCfg)[i].Channels))
       /\ SomeGlobMatches(GlobsOf(Kept(hlCfg)[i].ExcludeChannels))
  /\ \E j \in hlApplied :
       /\ GlobsOf(Kept(hlCfg)[j].Channels) = {}
       /\ GlobsOf(Kept(hlCfg)[j].ExcludeChannels) # {}
       /\ \E k \in 1..Len(Kept(hlCfg)[j].ExcludeChannels) :
            ToLower(Kept(hlCfg)[j].ExcludeChannels[k]) # Kept(hlCfg)[j].ExcludeChannels[k]

\* rule i alone worked on the text of the call: every other rule that
\* applied is declared before it and does not match the text
Alone(i) == \A j \in hlApplied \ {i} : j < i /\ j \notin Matching

\* the 1-based positions of s inside the span of a selected group of a match
Covered(s, re, groups) ==
  {p \in 1..Len(s) :
     \E m \in 1..Len(FindAllStringSubmatchIndex(re, s)), k \in 1..Len(groups) :
       LET idx == FindAllStringSubmatchIndex(re, s)[m]
           g == groups[k]
       IN  /\ 2 * g + 2 <= Len(idx)
           /\ idx[2 * g + 1] >= 0
           /\ idx[2 * g + 1] < p
           /\ p <= idx[2 * g + 2]}

\* s with the style before and the reset after every run of positions of cov
StyledRuns(s, cov, style) ==
  Flatten([p \in 1..Len(s) |->
             (IF p \in cov /\ (p - 1) \notin cov THEN style ELSE <<>>)
             \o <<s[p]>>
             \o (IF p \in cov /\ (p + 1) \notin cov THEN <<ircReset>> ELSE <<>>)])

\* C12: a per-match rule with resolved groups wraps the spans of its
\* selected groups, and nothing else, in its style and the reset; the rest of
\* every match and the text outside the matches is copied as it is (seen in
\* the calls where the rule is the last that applies and no rule before it
\* matches the text).
C12_OnlyGroupSpans ==
  hlPc = "returned"
  => \A i \in hlApplied :
       (/\ ~hl[i].wholeLine
        /\ Len(hl[i].groupIdxs) > 0
        /\ Alone(i))
       => hlOut = StyledRuns(hlText, Covered(hlText, hl[i].re, hl[i].groupIdxs),
                             hl[i].stylePref)

\* a call where such a rule matched, one of its groups took part of the
\* match, and the rest of the match came out unstyled
C12_Witness ==
  /\ hlPc = "returned"
  /\ \E i \in hlApplied :
       /\ ~hl[i].wholeLine
       /\ Len(hl[i].groupIdxs) > 0
       /\ Alone(i)
       /\ hlApplied # {i}
       /\ MatchString(hl[i].re, hlText)
       /\ Covered(hlText, hl[i].re, hl[i].groupIdxs) # {}
       /\ Covered(hlText, hl[i].re, hl[i].groupIdxs) # 1..Len(hlText)
       /\ hlOut # hlText

\* the characters a style prefix starts with
StyleChars == {ircBold, ircUnder, ircColor}

\* out from position i on pairs every style prefix with one reset and nests
\* no span: open tells that a span is open, inPrefix that position i - 1 is
\* a bold, underline or colour character
RECURSIVE Paired(_, _, _, _)
Paired(o, i, open, inPrefix) ==
  IF i > Len(o) THEN ~open
  ELSE IF o[i] \in StyleChars
    THEN IF inPrefix THEN Paired(o, i + 1, open, TRUE)
         ELSE IF open THEN FALSE
         ELSE Paired(o, i + 1, TRUE, TRUE)
  ELSE IF o[i] = ircReset
    THEN IF open THEN Paired(o, i + 1, FALSE, FALSE) ELSE FALSE
  ELSE Paired(o, i + 1, open, FALSE)

\* C15, as stated: in every string ApplyFor returns, every style prefix is
\* followed by exactly one reset and no style prefix stands between a prefix
\* and its reset (every rule of the model has a style, so that every reset
\* belongs to a prefix).
C15_PairedNeverNested == hlPc = "returned" => Paired(hlOut, 1, FALSE, FALSE)

\* the per-match rules that applied in the call
PerMatchApplied == {i \in hlApplied : ~hl[i].wholeLine}

\* C15, amended: the same for the strings that at most one rule styled: the
\* empty text, the line a whole-line rule took, and the text that at most one
\* per-match rule worked on (a later per-match rule works on the text the
\* earlier ones styled, and its spans can nest in theirs).
C15_PairedOneRule ==
  (/\ hlPc = "returned"
   /\ \/ hlText = <<>>
      \/ WholeLineHits # {}
      \/ Cardinality(PerMatchApplied) <= 1)
  => Paired(hlOut, 1, FALSE, FALSE)

\* a call where one per-match rule styled two matches, next to each other,
\* and a whole-line rule applied without matching
C15_Witness ==
  /\ hlPc = "returned"
  /\ WholeLineHits = {}
  /\ \E w \in hlApplied : hl[w].wholeLine
  /\ Cardinality(PerMatchApplied) = 1
  /\ Cardinality({p \in 1..Len(hlOut) : hlOut[p] = ircReset}) = 2
  /\ Len(hlText) = 2

\* a group selector of a description that resolves to no capture group of
\* the compiled pattern: a name the pattern has not, or an index out of 1..n
Unresolvable(re, sel) ==
  IF IsInt(TrimSpace(sel)) THEN Atoi(TrimSpace(sel)) < 1 \/ Atoi(TrimSpace(sel)) > re.ngroups
  ELSE SubexpIndex(re, TrimSpace(sel)) < 1

\* the description has group selectors and all of them are unresolvable
AllUnresolvable(d, re) ==
  /\ Len(d.Groups) > 0
  /\ \A k \in 1..Len(d.Groups) : Unresolvable(re, d.Groups[k])

\* C16, as stated: a rule whose group selectors are all unresolvable adds no
\* styling, also where its pattern matches (seen in the calls where the rule
\* is the last that applies and no rule before it matches the text).
C16_UnresolvableUnchanged ==
  hlPc = "returned"
  => \A i \in hlApplied :
       (/\ ~hl[i].wholeLine
        /\ AllUnresolvable(Kept(hlCfg)[i], hl[i].re)
        /\ Alone(i))
       => hlOut = hlText

\* ------------------------------------------------------------------------
\* Properties of the TCP server
\* ------------------------------------------------------------------------

\* s up to, not including, the first character of the set stop
Before(s, stop) ==
  SubSeq(s, 1, FirstOf({i \in 1..Len(s) : s[i] \in stop} \cup {Len(s) + 1}, 0) - 1)

\* the elements of the sequence s at the indices of the set F, in order
AtIndices(s, F) ==
  [k \in 1..Cardinality(F) |->
     s[CHOOSE i \in F : Cardinality({j \in F : j <= i}) = k]]

\* the elements of s that are not empty, in order
NonEmpty(s) == AtIndices(s, {i \in 1..Len(s) : s[i] # <<>>})

\* the channels named by the comma-separated tokens of token: "#" put
\* before those without prefix
NamedBy(tokens) == [i \in 1..Len(tokens) |-> WithPrefix(tokens[i])]

\* of the channels equal but for case, the first, in the order seen
FirstSeen(chs) ==
  AtIndices(chs, {i \in 1..Len(chs) :
                    \A j \in 1..(i - 1) : ToLower(chs[j]) # ToLower(chs[i])})

\* C17, as stated: the targets of a line that starts with "#" or "&" are
\* the tokens between the commas of its first whitespace-delimited token,
\* the empty ones skipped, "#" put before those without prefix, of those equal
\* but for case the first only, and there is at least one; any other line
\* has no targets and is, trimmed, the message.
C17_FirstWhitespaceToken ==
  ptPc = "done"
  => IF HasChanPrefix(TrimSpace(ptLine))
       THEN /\ ptTargets = FirstSeen(NamedBy(NonEmpty(
                             Split(Before(TrimSpace(ptLine), {" ", "\t", "\n", "\r"}), ","))))
            /\ ptTargets # <<>>
       ELSE ptTargets = <<>> /\ ptMsg = TrimSpace(ptLine)

\* the tokens, each trimmed of white space
Trimmed(tokens) == [i \in 1..Len(tokens) |-> TrimSpace(tokens[i])]

\* C17, amended: the same with the first token ending at the first space
\* (no other white space ends it), and every token between the commas
\* trimmed of white space before it is looked at.
C17_FirstSpaceToken ==
  ptPc = "done"
  => IF HasChanPrefix(TrimSpace(ptLine))
       THEN /\ ptTargets = FirstSeen(NamedBy(NonEmpty(Trimmed(
                             Split(Before(TrimSpace(ptLine), {" "}), ",")))))
            /\ ptTargets # <<>>
       ELSE ptTargets = <<>> /\ ptMsg = TrimSpace(ptLine)

\* a line of two tokens, the second without prefix and equal to the first
\* but for case: one target, spelt as the first token
C17_Witness ==
  /\ ptPc = "done"
  /\ Len(Split(Before(TrimSpace(ptLine), {" "}), ",")) = 2
  /\ Len(ptTargets) = 1
  /\ ToLower(ptTargets[1]) # ptTargets[1]
  /\ \E i \in 1..Len(ptLine) : ptLine[i] = "a"

\* the text scanned holds carriage returns and line feeds only
EmptyLine == \A i \in 1..Len(connText) : connText[i] \in {"\r", "\n"}

\* the line, trimmed of white space, starts with a channel prefix, and what
\* follows its first space is white space only
TargetsOnly ==
  /\ HasChanPrefix(TrimSpace(connLine))
  /\ \A i \in (Len(Before(TrimSpace(connLine), {" "})) + 1)..Len(TrimSpace(connLine)) :
       IsSpaceChar(TrimSpace(connLine)[i])

\* C18: handleConn makes no call of SendTo or Broadcast (and none of applyHL)
\* for an empty line, nor for a line that starts with channel targets and has
\* nothing but white space after the channel token.
C18_NoMessageNoDelivery ==
  connPc \in {"bcast", "loop", "done"} /\ (EmptyLine \/ TargetsOnly) =>
    /\ connPc = "done"
    /\ connCalls = <<>>

\* handleConn is through with a line of two targets and white space, all
\* of it within the line
C18_Witness ==
  /\ connPc = "done"
  /\ TargetsOnly
  /\ Len(connTargets) = 2
  /\ \E i \in 2..Len(connLine) : connLine[i] = " "

\* the Highlighter value h without its rules that have a channel filter
Unfiltered(h) ==
  IF h = <<>> THEN h
  ELSE << AtIndices(h[1], {i \in 1..Len(h[1]) : ~h[1][i].hasFilters}) >>

\* C20: when handleConn is through with a line it delivered, then for a line
\* with targets it called, for every target in order, applyHL with that
\* channel and the message and then SendTo with that channel alone and what
\* ApplyFor returns for that channel; for a line without targets it called
\* applyHL once with the empty channel and then Broadcast once with the
\* result, which is what the rules without channel filter alone make of the
\* line.
C20_PerTargetOrBroadcast ==
  connPc = "done" /\ connCalls # <<>> =>
    IF connTargets = <<>>
    THEN connCalls = << <<"applyHL", <<>>, connLine>>,
                        <<"Broadcast", <<>>, ApplyHL(Unfiltered(srvHL), <<>>, connLine)>> >>
    ELSE /\ Len(connCalls) = 2 * Len(connTargets)
         /\ \A k \in 1..Len(connTargets) :
              /\ connCalls[2 * k - 1] = <<"applyHL", connTargets[k], connMsg>>
              /\ connCalls[2 * k] = <<"SendTo", <<connTargets[k]>>,
                                      ApplyHL(srvHL, connTargets[k], connMsg)>>

\* a line for the channels # and #a was delivered, and the whole-line rule
\* for #a styled the message for #a and not for #
C20_Witness ==
  /\ connPc = "done"
  /\ Len(connTargets) = 2
  /\ Len(connCalls) = 4
  /\ connCalls[2][3] # connCalls[4][3]
  /\ connCalls[2][3] # connMsg
  /\ connCalls[4][3] # connMsg

\* C13: the result of every call of applyHL is what the one Highlighter value
\* the call read from s.HL makes of the message, all of it, whatever
\* SetHighlighter has put into s.HL since; and the value read is the one set by
\* the last call of SetHighlighter that had returned when the call read (the
\* initial one, if none had), unless a later call of SetHighlighter was under
\* way then, whose value it may be instead.
C13_OneHighlighterPerCall ==
  \A p \in Handlers :
    hnd[p].pc = "ret" =>
      /\ hnd[p].out = ApplyHL(hnd[p].local, hnd[p].ch, hnd[p].msg)
      /\ hnd[p].local \in hnd[p].adm

\* a call returns what the Highlighter it read makes of the message after
\* s.HL was replaced by one that makes something else of it, while the other
\* handler's call, which read after SetHighlighter returned, returns what the
\* new one makes of it
C13_Witness ==
  /\ hnd[1].pc = "ret"
  /\ hnd[2].pc = "ret"
  /\ hnd[1].msg = hnd[2].msg
  /\ hnd[1].local # srvHL
  /\ hnd[1].out # ApplyHL(srvHL, hnd[1].ch, hnd[1].msg)
  /\ hnd[1].out # hnd[1].msg
  /\ hnd[2].adm = {srvHL}
  /\ hnd[2].out = ApplyHL(srvHL, hnd[2].ch, hnd[2].msg)
  /\ hnd[2].out # hnd[2].msg
  /\ reloads = 1

\* C14: no handler holds s.mu while ApplyFor runs, and SetHighlighter holds
\* it only to replace s.HL; so a call of SetHighlighter that waits for the
\* guard gets it when no handler is between RLock and RUnlock, whatever calls
\* are matching, and a handler that has read s.HL can release the guard, go
\* into ApplyFor and return, whatever SetHighlighter does.
C14_GuardOnlyForReference ==
  /\ \A p \in Handlers : hnd[p].pc \in {"whole", "match", "ret"} => p \notin mu.readers
  /\ mu.writer <=> rl.pc \in {"write", "unlock"}
  /\ (rl.pc = "lock" /\ \A p \in Handlers : hnd[p].pc \notin {"read", "runlock"})
       => ENABLED RlLock
  /\ \A p \in Handlers :
       /\ hnd[p].pc = "runlock" => ENABLED HRUnlock(p)
       /\ hnd[p].pc = "whole" => ENABLED HWholeLine(p)
       /\ hnd[p].pc = "ret" => ENABLED HReturn(p)

\* SetHighlighter waits for the guard while one handler is in the second loop
\* of ApplyFor and the other waits to read
C14_Witness ==
  /\ rl.pc = "lock"
  /\ hnd[1].pc = "match"
  /\ hnd[2].pc = "rlock"
  /\ mu.readers = {}

\* ------------------------------------------------------------------------
\* Properties of the IRC client's delivery
\* ------------------------------------------------------------------------

\* the texts of the Privmsg calls for the channel ch, in order
TextsFor(ch) ==
  [k \in 1..Cardinality({i \in 1..Len(privmsgs) : privmsgs[i][1] = ch}) |->
     AtIndices(privmsgs, {i \in 1..Len(privmsgs) : privmsgs[i][1] = ch})[k][2]]

\* how often ch stands in channels
Times(channels, ch) == Cardinality({j \in 1..Len(channels) : channels[j] = ch})

\* every element of segs n times, in order
Each(segs, n) == [k \in 1..(Len(segs) * n) |-> segs[((k - 1) \div n) + 1]]

\* what c.segmentMessage returns for the message of the call
Chunks == SegmentMessage(sndMsg, cliLimit, cliSplit)

\* C19: when SendTo(channels, msg) has returned, there were as many Privmsg
\* calls as pairs of a chunk of segmentMessage(msg) and a position of
\* channels, and every channel got the chunks in the order segmentMessage
\* returned them (each as often as the channel stands in channels); when
\* Broadcast(msg) has returned, the calls are, for every configured channel in
\* configuration order, the chunks in order for that channel.
C19_ChunkPerChannel ==
  sndPc = "done" =>
    IF sndKind = "SendTo"
    THEN /\ Len(privmsgs) = Len(Chunks) * Len(sndArg)
         /\ \A ch \in ChanNames : TextsFor(ch) = Each(Chunks, Times(sndArg, ch))
    ELSE privmsgs = Flatten([k \in 1..Len(cliChannels) |->
                               [i \in 1..Len(Chunks) |-> <<cliChannels[k], Chunks[i]>>]])

\* SendTo with two different channels has returned, and the message was cut
\* into more than one chunk
C19_Witness ==
  /\ sndPc = "done"
  /\ sndKind = "SendTo"
  /\ Len(sndArg) = 2
  /\ sndArg[1] # sndArg[2]
  /\ Len(Chunks) > 1
  /\ Chunks[1] # Chunks[2]

\* the channel names the connected handler sent a JOIN for
JoinedNames == {onConnect[k][2] : k \in {j \in 1..Len(onConnect) : onConnect[j][1] = "JOIN"}}

\* C30: every channel name Broadcast sends a PRIVMSG to is a name the client
\* sent a JOIN for on connect: the n-th configured name, trimmed and with '#'
\* put before it unless it starts with '#' or '&'.
C30_BroadcastToJoined ==
  (ready /\ sndKind = "Broadcast") =>
    /\ \A k \in 1..Len(privmsgs) : privmsgs[k][1] \in JoinedNames
    /\ (sndPc = "done" /\ cliLimit = 0) =>
         /\ Len(privmsgs) = Len(cliChannels)
         /\ \A k \in 1..Len(privmsgs) : privmsgs[k][1] = EnsureChanPrefix(cliChannels[k])

\* ------------------------------------------------------------------------
\* Further properties of the highlighter
\* ------------------------------------------------------------------------

\* the description has no pattern once trimmed, a kind that is none of
\* regex, word and unset, or a regex pattern that does not compile
Dropped(r) ==
  \/ \A i \in 1..Len(r.Pattern) : IsSpaceChar(r.Pattern[i])
  \/ ToLower(r.Kind) \notin {KindRegex, KindWord, <<>>}
  \/ ToLower(r.Kind) = KindRegex /\ ~Compile(TrimSpace(r.Pattern)).ok

\* C21: New returns a Highlighter for every configuration: a description
\* with an empty pattern, an unknown kind or a pattern that does not compile
\* yields no rule, and the rules of the other descriptions stand in the
\* Highlighter in the order of the descriptions.
C21_DroppedInOrder ==
  hlPc = "ready" =>
    hl = [k \in 1..Cardinality({i \in 1..Len(hlCfg) : ~Dropped(hlCfg[i])}) |->
            CompiledRule(AtIndices(hlCfg, {i \in 1..Len(hlCfg) : ~Dropped(hlCfg[i])})[k])]

\* New was given a description that yields no rule before one that yields
\* one
C21_Witness ==
  /\ hlPc = "ready"
  /\ Len(hlCfg) = 2
  /\ Dropped(hlCfg[1])
  /\ ~Dropped(hlCfg[2])
  /\ Len(hl) = 1

\* the glob is malformed: filepath.Match gives an error for it
Malformed(g) == ~GlobWellFormed(g, 1)

\* the globs of the list that are well formed, in order
WellFormed(list) == AtIndices(list, {i \in 1..Len(list) : ~Malformed(list[i])})

\* C22: in a call with a channel, a rule whose include globs are all malformed
\* (and it has some) does not apply, and a rule applies exactly when it
\* would without its malformed exclude globs.
C22_MalformedNeverMatches ==
  hlPc = "returned" /\ ChLower(hlChannel) # <<>> =>
    \A i \in 1..Len(hl) :
      /\ (Len(hl[i].includes) > 0 /\ WellFormed(hl[i].includes) = <<>>) => i \notin hlApplied
      /\ i \in hlApplied <=>
           RuleAppliesTo([hl[i] EXCEPT !.excludes = WellFormed(@)], ChLower(hlChannel))

\* a call with a channel, one rule with malformed include globs only and one
\* with a malformed exclude glob only, which applies
C22_Witness ==
  /\ hlPc = "returned"
  /\ ChLower(hlChannel) # <<>>
  /\ Len(hl) = 2
  /\ Len(hl[1].includes) > 0
  /\ WellFormed(hl[1].includes) = <<>>
  /\ Len(hl[2].excludes) > 0
  /\ WellFormed(hl[2].excludes) = <<>>
  /\ hlApplied = {2}

\* the elements of the set F of numbers, in rising order
Rising(F) ==
  [k \in 1..Cardinality(F) |-> CHOOSE i \in F : Cardinality({j \in F : j <= i}) = k]

\* how many characters of the text stand before position i of o, which
\* holds the text, bold characters and resets
TextBefore(o, i) ==
  Cardinality({j \in 1..(i - 1) : o[j] \notin {ircBold, ircReset}})

\* the spans styled in o, as offsets into the text: from every bold
\* character to the reset of the same rank
StyledSpans(o) ==
  [k \in 1..Cardinality({i \in 1..Len(o) : o[i] = ircBold}) |->
     << TextBefore(o, Rising({i \in 1..Len(o) : o[i] = ircBold})[k]),
        TextBefore(o, Rising({i \in 1..Len(o) : o[i] = ircReset})[k]) >>]

\* the spans are not empty, rise, and leave text between one and the next
Apart(spans) ==
  /\ \A k \in 1..Len(spans) : spans[k][1] < spans[k][2]
  /\ \A k \in 1..(Len(spans) - 1) : spans[k][2] < spans[k + 1][1]

\* C23: what one application of a rule with group selectors styles is a
\* list of spans that are not empty, sorted, disjoint and apart (text that is
\* not styled stands between one span and the next, so spans that overlap or
\* touch came out as one), and together they hold exactly the positions of the
\* set, non-empty spans of the selected groups.
C23_MergedSpansApart ==
  hlPc = "returned" =>
    \A i \in hlApplied :
      (Len(hl[i].groupIdxs) > 0 /\ Alone(i)) =>
        /\ Cardinality({p \in 1..Len(hlOut) : hlOut[p] = ircBold})
             = Cardinality({p \in 1..Len(hlOut) : hlOut[p] = ircReset})
        /\ Apart(StyledSpans(hlOut))
        /\ {p \in 1..Len(hlText) :
              \E k \in 1..Len(StyledSpans(hlOut)) :
                StyledSpans(hlOut)[k][1] < p /\ p <= StyledSpans(hlOut)[k][2]}
             = Covered(hlText, hl[i].re, hl[i].groupIdxs)

\* one rule with group selectors worked on a text where two of its spans
\* touch and a third stands apart: two styled spans, one of them longer than
\* a group of the rule can be
C23_Witness ==
  /\ hlPc = "returned"
  /\ Len(hl) = 1
  /\ hlText = <<"a", "a", "b", "a">>
  /\ StyledSpans(hlOut) = << <<0, 2>>, <<3, 4>> >>

\* what the rules from i on make of s one after the other, every per-match
\* rule as a Highlighter of its own working on what the one before returned
RECURSIVE OneByOne(_, _, _, _)
OneByOne(rules, i, channel, s) ==
  IF i > Len(rules) THEN s
  ELSE OneByOne(rules, i + 1, channel,
                IF rules[i].wholeLine THEN s ELSE ApplyFor(<<rules[i]>>, channel, s))

\* C24: when a whole-line rule applies and matches the text as given, the
\* call returns what the first such rule alone makes of the text as given,
\* wherever the per-match rules stand; otherwise it returns what the per-match
\* rules make of it one after the other in the order of declaration, each
\* working on what the one before returned.
C24_WholeLineThenFold ==
  hlPc = "returned" =>
    IF WholeLineHits # {}
    THEN hlOut = ApplyFor(<<hl[FirstOf(WholeLineHits, 0)]>>, hlChannel, hlText)
    ELSE hlOut = OneByOne(hl, 1, hlChannel, hlText)

\* two per-match rules, the second of which does not match the text as given
\* and yet styled something (the 4 of the first rule's colour code), and
\* which in the other order return something else
C24_Witness ==
  /\ hlPc = "returned"
  /\ Len(hl) = 2
  /\ ~hl[1].wholeLine
  /\ ~hl[2].wholeLine
  /\ ~MatchString(hl[2].re, hlText)
  /\ hlOut # ApplyFor(<<hl[1]>>, hlChannel, hlText)
  /\ hlOut # ApplyFor(<<hl[2], hl[1]>>, hlChannel, hlText)

\* t from its position i on is found, in order, in o from its position j on
RECURSIVE Within(_, _, _, _)
Within(t, i, o, j) ==
  IF i > Len(t) THEN TRUE
  ELSE IF j > Len(o) THEN FALSE
  ELSE IF t[i] = o[j] THEN Within(t, i + 1, o, j + 1)
  ELSE Within(t, i, o, j + 1)

\* the characters of the style prefixes of the rules, and the reset
StyleAlphabet == {ircReset} \cup UNION {Range(hl[i].stylePref) : i \in 1..Len(hl)}

\* C29: ApplyFor only puts style prefixes and resets in: the text is in the
\* output, in order, with nothing of it left out or replaced, what the
\* output has more is characters of the rules' style prefixes and resets,
\* an output no longer than the text is the text, and the rules of the
\* highlighter are after the call those New made.
C29_TextKept ==
  hlPc = "returned" =>
    /\ Within(hlText, 1, hlOut, 1)
    /\ Len(hlOut) >= Len(hlText)
    /\ Len(hlOut) = Len(hlText) => hlOut = hlText
    /\ \A k \in 1..Len(hlOut) : hlOut[k] \in Range(hlText) \cup StyleAlphabet
    /\ hl = New(hlCfg)

\* a call that styled a group and left the text after it as it was
C29_Witness ==
  /\ hlPc = "returned"
  /\ hlText = <<"a", "b">>
  /\ \E st \in {hl[i].stylePref : i \in 1..Len(hl)} :
       hlOut = st \o <<"a", ircReset, "b">>

\* ------------------------------------------------------------------------
\* Properties of the IRC client's reconnector
\* ------------------------------------------------------------------------

\* C25, as stated: the reconnector calls ConnectTo no more once Close has
\* been called.
C25_NoAttemptAfterClose == lateAttempts = 0

\* two to the power n
RECURSIVE Pow2(_)
Pow2(n) == IF n = 0 THEN 1 ELSE 2 * Pow2(n - 1)

\* C26: the backoff is one second doubled once per failed attempt since the
\* last attempt that succeeded (or since the start), but 30 seconds at most,
\* so it lies between 1 and 30 seconds; c.reconnCh never holds more than one
\* signal, and the disconnected handler can always take its step.
C26_BackoffAndCoalescing ==
  /\ backoff = (IF Pow2(fails) > 30 THEN 30 ELSE Pow2(fails))
  /\ backoff >= 1
  /\ backoff <= 30
  /\ reconnCh \in {0, 1}
  /\ ENABLED Disconnected

\* the backoff stands at its cap after one more failed attempt than it
\* takes to reach it, and a disconnect came while a signal was pending
C26_Witness ==
  /\ fails = 6
  /\ backoff = 30
  /\ coalesced
  /\ rcPc = "check"
====
